---- MODULE Spec2Model ----
(***************************************************************************)
(* Model of the Pixiv bulk downloader extension.                           *)
(*                                                                         *)
(*  - content script (src/unnamed/part_000): metadata normalisation and    *)
(*    the resolver collectPixivMedia with its single-slot cache and its    *)
(*    in-flight record;                                                    *)
(*  - background script (src/background.js): the download orchestrator     *)
(*    triggerDownloads.                                                    *)
(*                                                                         *)
(* JavaScript runs every handler to completion: an action below is the     *)
(* synchronous stretch of code between two suspension points (await).      *)
(* Promise reactions are microtasks and run before the next event.         *)
(***************************************************************************)
EXTENDS Integers, Sequences, FiniteSets, TLC

(***************************************************************************)
(* Bounds of the model.                                                    *)
(***************************************************************************)
NumIds == 2
MaxCalls == 3
MaxNavigations == 2

\* The illust ids of the artwork pages (digit strings in the program).
Ids == 1..NumIds

(***************************************************************************)
(* Values.                                                                 *)
(*                                                                         *)
(* null / undefined of an object reference is the empty sequence and a     *)
(* present object x is <<x>>.  A null id or promise is 0.                   *)
(***************************************************************************)
Null == <<>>
Some(x) == <<x>>

\* A URL https://i.pximg.net/<dir>/img/<stem>[_p<page>][<suffix>].<ext>
\* page = -1: the file name carries no _p<k> part.
Url(dir, stem, page, suffix, ext) ==
  [dir |-> dir, stem |-> stem, page |-> page, suffix |-> suffix, ext |-> ext]

\* A missing URL (undefined, null or the empty string).
NoUrl == Url("", 0, -1, "", "")

\* JavaScript truthiness of a URL value.
Truthy(u) == u # NoUrl

Contains(s, x) == \E i \in 1..Len(s) : s[i] = x

(***************************************************************************)
(* Text.  A string is the sequence of its characters; the empty string is  *)
(* <<>>.  Messages are named by their keys.                                *)
(***************************************************************************)
DigitChars == << "0", "1", "2", "3", "4", "5", "6", "7", "8", "9" >>

\* String(n) for n >= 0
RECURSIVE DigitsOf(_)
DigitsOf(n) == IF n < 10 THEN << DigitChars[n + 1] >>
               ELSE DigitsOf(n \div 10) \o << DigitChars[(n % 10) + 1] >>

\* n times the character c
Repeat(c, n) == [k \in 1..n |-> c]

\* the fallback strings of FALLBACK_MESSAGES (content script, lines 45-49)
fallbackArtworkTitle(illustId) ==
  << "P", "i", "x", "i", "v", " ", "A", "r", "t", "w", "o", "r", "k", " " >> \o DigitsOf(illustId)
fallbackUnknownCreator ==
  << "U", "n", "k", "n", "o", "w", "n", " ", "C", "r", "e", "a", "t", "o", "r" >>

\* Message keys of t(...) / getMessage(...).
errorUnsupportedPage == "errorUnsupportedPage"
errorNoIllustrationData == "errorNoIllustrationData"
errorNoDownloadableImages == "errorNoDownloadableImages"
errorPixivRequestFailed == "errorPixivRequestFailed"
errorPixivResponse == "errorPixivResponse"
errorNoAjaxBody == "errorNoAjaxBody"

(***************************************************************************)
(* Content script: fallback chains and deduplication.                      *)
(***************************************************************************)

\* for (candidate of list) { if (!candidate || seen.has(candidate)) continue;
\*                           seen.add(candidate); result.push(candidate) }
\* with seen = exclude plus what result holds.
RECURSIVE PushUnseen(_, _, _)
PushUnseen(result, list, exclude) ==
  IF list = <<>> THEN result
  ELSE LET c == Head(list) IN
       IF ~Truthy(c) \/ c \in exclude \/ Contains(result, c)
       THEN PushUnseen(result, Tail(list), exclude)
       ELSE PushUnseen(Append(result, c), Tail(list), exclude)

\* extension.toLowerCase() of the extension of a URL
LowerExt(ext) ==
  CASE ext = "JPG" -> "jpg"
    [] ext = "PNG" -> "png"
    [] OTHER -> ext

\* the extension compared as it is written
buildMasterCandidatesCaseSensitive(url) ==
  IF ~Truthy(url) \/ url.dir # "img-original" THEN <<>>
  ELSE IF url.page < 0 \/ url.suffix # "" \/ url.ext = "" THEN <<>>
  ELSE LET base == [url EXCEPT !.dir = "img-master", !.suffix = "_master1200"]
       IN  IF url.ext # "jpg"
           THEN << [base EXCEPT !.ext = "jpg"], base >>
           ELSE << [base EXCEPT !.ext = "jpg"] >>

buildMasterCandidates(url) ==
  IF ~Truthy(url) \/ url.dir # "img-original" THEN <<>>
  \* /_p(\d+)(\.[^.]+)$/ : the name ends in _p<k>.<ext>
  ELSE IF url.page < 0 \/ url.suffix # "" \/ url.ext = "" THEN <<>>
  ELSE LET base == [url EXCEPT !.dir = "img-master", !.suffix = "_master1200"]
       IN  IF LowerExt(url.ext) # "jpg"
           THEN << [base EXCEPT !.ext = "jpg"], base >>
           ELSE << [base EXCEPT !.ext = "jpg"] >>

\* the master candidates pushed before the extras
buildFallbackListMastersFirst(primary, extras) ==
  PushUnseen(PushUnseen(<<>>, buildMasterCandidates(primary), {primary}), extras, {primary})

buildFallbackList(primary, extras) ==
  LET afterExtras == PushUnseen(<<>>, extras, {primary})
      masters == buildMasterCandidates(primary)
      \* the second loop has no falsy test; master candidates are never falsy
  IN  PushUnseen(afterExtras, masters, {primary})

FilterTruthy(s) == SelectSeq(s, Truthy)

IndexOfUrl(items, url) ==
  IF \E i \in 1..Len(items) : items[i].url = url
  THEN CHOOSE i \in 1..Len(items) : items[i].url = url
  ELSE 0

RECURSIVE dedupeInto(_, _)
dedupeInto(map, items) ==
  IF items = <<>> THEN map
  ELSE LET item == Head(items)
           fallbacks == FilterTruthy(item.fallbacks)
           k == IndexOfUrl(map, item.url)
       IN  IF ~Truthy(item.url) THEN dedupeInto(map, Tail(items))
           ELSE IF k = 0
           THEN dedupeInto(
                  Append(map, [item EXCEPT !.fallbacks = PushUnseen(<<>>, fallbacks, {})]),
                  Tail(items))
           ELSE dedupeInto(
                  [map EXCEPT ![k].fallbacks = PushUnseen(map[k].fallbacks, fallbacks, {})],
                  Tail(items))

\* the records of the map returned last first
dedupeUrlsReversed(items) ==
  LET map == dedupeInto(<<>>, items) IN [i \in 1..Len(map) |-> map[Len(map) + 1 - i]]

dedupeUrls(items) == dedupeInto(<<>>, items)

(***************************************************************************)
(* Content script: normalisation of the two metadata shapes.               *)
(*                                                                         *)
(* data = [illust, illustManga, ugoira], each a function from the ids it   *)
(* has a record for to that record.                                        *)
(***************************************************************************)
NoUrls == [original |-> NoUrl, regular |-> NoUrl, small |-> NoUrl,
           thumb |-> NoUrl, mini |-> NoUrl]

EmptyData == [illust |-> <<>>, illustManga |-> <<>>, ugoira |-> <<>>]

Lookup(f, id) == IF id \in DOMAIN f THEN Some(f[id]) ELSE Null

\* String.replace(/_p0(\.[^./]+)$/i, `_p${i}$1`): unchanged when no match.
GuessPage(url, i) ==
  IF Truthy(url) /\ url.page = 0 /\ url.suffix = "" /\ url.ext # ""
  THEN [url EXCEPT !.page = i]
  ELSE url

\* pushOriginal with the extras as its fallbacks
pushOriginalRawFallbacks(images, url, pageIndex, variant, extraFallbacks) ==
  IF ~Truthy(url) THEN images
  ELSE Append(images, [url |-> url, page |-> pageIndex, variant |-> variant,
                       fallbacks |-> extraFallbacks])

\* pushOriginal
pushOriginal(images, url, pageIndex, variant, extraFallbacks) ==
  IF ~Truthy(url) THEN images
  ELSE Append(images, [url |-> url, page |-> pageIndex, variant |-> variant,
                       fallbacks |-> buildFallbackList(url, extraFallbacks)])

RECURSIVE pushMangaPages(_, _, _)
pushMangaPages(images, pages, index) ==
  IF index >= Len(pages) THEN images
  ELSE LET page == pages[index + 1]
           original == IF Truthy(page.urls.original) THEN page.urls.original
                       ELSE page.urls.regular
           extra == << page.urls.regular, page.urls.small, page.urls.thumb >>
       IN  pushMangaPages(pushOriginal(images, original, index, "page", extra),
                          pages, index + 1)

RECURSIVE pushGuessed(_, _, _, _)
pushGuessed(images, original, pageCount, i) ==
  IF i >= pageCount THEN images
  ELSE pushGuessed(pushOriginal(images, GuessPage(original, i), i, "guessed", <<>>),
                   original, pageCount, i + 1)

Success(illustId, title, author, images) ==
  [success |-> TRUE, illustId |-> illustId, title |-> title, author |-> author,
   images |-> images, error |-> ""]

Failure(error) ==
  [success |-> FALSE, illustId |-> 0, title |-> <<>>, author |-> <<>>,
   images |-> <<>>, error |-> error]

collectIllustImages(illustId, data) ==
  LET illustEntry == Lookup(data.illust, illustId)
      mangaEntry == Lookup(data.illustManga, illustId)
      ugoiraEntry == Lookup(data.ugoira, illustId)
      hasI == illustEntry # Null
      hasM == mangaEntry # Null
      hasU == ugoiraEntry # Null
      title == IF hasI /\ illustEntry[1].title # <<>> THEN illustEntry[1].title
               ELSE IF hasM /\ mangaEntry[1].title # <<>> THEN mangaEntry[1].title
               ELSE fallbackArtworkTitle(illustId)
      author == IF hasI /\ illustEntry[1].userName # <<>> THEN illustEntry[1].userName
                ELSE IF hasM /\ mangaEntry[1].userName # <<>> THEN mangaEntry[1].userName
                ELSE fallbackUnknownCreator
      mangaLen == IF hasM THEN Len(mangaEntry[1].pages) ELSE 0
      img1 == IF hasI /\ Truthy(illustEntry[1].urls.original)
              THEN pushOriginal(<<>>, illustEntry[1].urls.original, 0, "original",
                     << illustEntry[1].urls.regular, illustEntry[1].urls.small,
                        illustEntry[1].urls.thumb, illustEntry[1].urls.mini >>)
              ELSE <<>>
      img2 == IF mangaLen > 0 THEN pushMangaPages(img1, mangaEntry[1].pages, 0) ELSE img1
      img3 == IF hasI /\ illustEntry[1].pageCount > 1 /\ mangaLen = 0
              THEN pushGuessed(img2, illustEntry[1].urls.original,
                               illustEntry[1].pageCount, 0)
              ELSE img2
      img4 == IF hasU /\ Truthy(ugoiraEntry[1].originalSrc)
              THEN pushOriginal(img3, ugoiraEntry[1].originalSrc, 0, "ugoira", <<>>)
              ELSE img3
      uniqueImages == dedupeUrls(img4)
  IN  IF ~hasI /\ ~hasM /\ ~hasU THEN Failure(errorNoIllustrationData)
      ELSE IF uniqueImages = <<>> THEN Failure(errorNoDownloadableImages)
      ELSE Success(illustId, title, author, uniqueImages)

\* body: the illust detail record of the remote API; ugoiraMeta: Null or
\* Some(record of the ugoira_meta endpoint).
convertAjaxToPreload(illustId, body, ugoiraMeta) ==
  LET title == IF body.title # <<>> THEN body.title ELSE fallbackArtworkTitle(illustId)
      author == IF body.userName # <<>> THEN body.userName
                ELSE IF body.userAccount # <<>> THEN body.userAccount
                ELSE fallbackUnknownCreator
      pageCount == IF body.pageCount # 0 THEN body.pageCount
                   ELSE IF body.mangaPages # <<>> THEN Len(body.mangaPages)
                   ELSE 1
      illust == (illustId :> [title |-> title, userName |-> author,
                              urls |-> body.urls, pageCount |-> pageCount])
      illustManga == IF body.mangaPages # <<>>
                     THEN (illustId :> [title |-> title, userName |-> author,
                                        pages |-> body.mangaPages])
                     ELSE <<>>
      ugoiraSrc == IF ugoiraMeta = Null THEN NoUrl
                   ELSE IF Truthy(ugoiraMeta[1].originalSrc) THEN ugoiraMeta[1].originalSrc
                   ELSE IF Truthy(ugoiraMeta[1].src) THEN ugoiraMeta[1].src
                   ELSE ugoiraMeta[1].zipMedium
      ugoira == IF Truthy(ugoiraSrc) THEN (illustId :> [originalSrc |-> ugoiraSrc])
                ELSE <<>>
  IN  [illust |-> illust, illustManga |-> illustManga, ugoira |-> ugoira]

(***************************************************************************)
(* Sample inputs: what the page embeds and what the remote API answers.    *)
(***************************************************************************)
Original(id, k, ext) == Url("img-original", id, k, "", ext)
Master(id, k) == Url("img-master", id, k, "_master1200", "jpg")
UgoiraZip(id) == Url("img-zip-ugoira", id, -1, "_ugoira1920x1080", "zip")

UrlsOf(id, ext) == [NoUrls EXCEPT !.original = Original(id, 0, ext),
                                  !.regular = Master(id, 0)]

PageOf(id, k) ==
  [urls |-> [original |-> Original(id, k, "png"), regular |-> Master(id, k),
             small |-> NoUrl, thumb |-> NoUrl]]

\* embedded records for id: a single illustration, a record without urls,
\* a two-page manga
EmbeddedSingle(id) ==
  [EmptyData EXCEPT !.illust = (id :> [title |-> << "T" >>, userName |-> << "U" >>,
                                       urls |-> UrlsOf(id, "png"), pageCount |-> 1])]
EmbeddedNoUrls(id) ==
  [EmptyData EXCEPT !.illust = (id :> [title |-> << "T" >>, userName |-> <<>>,
                                       urls |-> NoUrls, pageCount |-> 1])]
EmbeddedManga(id) ==
  [EmptyData EXCEPT !.illustManga = (id :> [title |-> <<>>, userName |-> << "U" >>,
                                            pages |-> << PageOf(id, 0), PageOf(id, 1) >>])]

\* The content of meta#meta-preload-data: missing, unparsable, or JSON.
Preloads ==
  { [kind |-> "absent", data |-> EmptyData], [kind |-> "badjson", data |-> EmptyData] }
  \cup { [kind |-> "json", data |-> d] :
           d \in UNION { {EmbeddedSingle(id), EmbeddedNoUrls(id), EmbeddedManga(id)} :
                         id \in Ids } }

BodyOf(id, type, urls, pages, pageCount) ==
  [title |-> << "T" >>, userName |-> <<>>, userAccount |-> << "a" >>, urls |-> urls,
   pageCount |-> pageCount, mangaPages |-> pages, illustType |-> type]

\* Answers of https://www.pixiv.net/ajax/illust/<id>: a non-2xx status, an
\* error envelope, a JSON without body, or a body.
IllustResponses(id) ==
  { [kind |-> k, body |-> BodyOf(id, 0, NoUrls, <<>>, 0)] : k \in {"http", "apierror", "nobody"} }
  \cup { [kind |-> "body", body |-> b] :
           b \in { BodyOf(id, 0, UrlsOf(id, "jpg"), <<>>, 1),
                   BodyOf(id, 1, NoUrls, << PageOf(id, 0), PageOf(id, 1) >>, 2),
                   BodyOf(id, 2, UrlsOf(id, "jpg"), <<>>, 1),
                   BodyOf(id, 0, NoUrls, <<>>, 0) } }

NoUgoiraMeta == [originalSrc |-> NoUrl, src |-> NoUrl, zipMedium |-> NoUrl]

\* Answers of .../ajax/illust/<id>/ugoira_meta.
UgoiraResponses(id) ==
  { [kind |-> "http", meta |-> NoUgoiraMeta],
    [kind |-> "apierror", meta |-> NoUgoiraMeta],
    [kind |-> "body", meta |-> [NoUgoiraMeta EXCEPT !.originalSrc = UgoiraZip(id)]] }

(***************************************************************************)
(* Content script: the resolver collectPixivMedia.                         *)
(***************************************************************************)
VARIABLES
  location,          \* illust id in window.location.pathname, 0: not an artwork page
  lastPathname,      \* the path the path watcher saw last
  preload,           \* content of meta#meta-preload-data of the loaded document
  cachedIllustId,
  cachedPayload,
  inflightPromise,   \* index into promises, 0: null
  inflightIllustId,
  promises,          \* the promises of the resolutions started so far
  calls,             \* the collectPixivMedia calls made so far
  navigations,       \* number of navigations so far
  chain              \* history: per id, what happened since a resolution of the
                     \* id was last started with no other one of that id running

rvars == << location, lastPathname, preload, cachedIllustId, cachedPayload,
            inflightPromise, inflightIllustId, promises, calls, navigations, chain >>

\* The state of the background script, which the downloader below moves.
VARIABLES
  currentSettings,
  downloadMeta,      \* the argument of triggerDownloads
  batch,             \* the local variables of the running triggerDownloads
  net,               \* the fetches and downloads.download calls not yet answered
  badge,             \* the badge text of the tab
  updates,           \* number of PIXIV_SETTINGS_UPDATED messages handled
  obs,               \* history: what the batch did for each asset
  lastEvent          \* history: the answer the batch handled last

dvars == << currentSettings, downloadMeta, batch, net, badge, updates, obs, lastEvent >>

\* The background script is left out of the specification of the resolver.
DownloaderOff ==
  /\ currentSettings = <<>>
  /\ downloadMeta = <<>>
  /\ batch = <<>>
  /\ net = {}
  /\ badge = <<>>
  /\ updates = 0
  /\ obs = <<>>
  /\ lastEvent = <<>>

\* A call of one of the pure functions of the two scripts and what it returns.
VARIABLES
  fnCall,            \* the function called and its arguments
  fnResult           \* Null, or Some(the value returned)

fvars == << fnCall, fnResult >>

\* No such call is observed in the specifications of the two scripts.
FunctionsOff ==
  /\ fnCall = <<>>
  /\ fnResult = <<>>

\* A click on the toolbar button or on the overlay button of the page.
VARIABLES
  click              \* the local variables of the handler of the click

cvars == << click >>

ClickOff == click = <<>>

\* The handlers of the background script: of a click on the toolbar button and
\* of the messages of the content script and of the options page.
VARIABLES
  settingsReadyPromise,  \* the promise of ensureSettingsLoaded: its state and value
  storage,               \* the values storage.get finds: Null, or Some(a raw record)
  handlers               \* the handlers started so far, each with its local variables

bvars == << settingsReadyPromise, storage, handlers >>

\* No handler is observed in the other specifications.
BackgroundOff ==
  /\ settingsReadyPromise = <<>>
  /\ storage = <<>>
  /\ handlers = <<>>

getIllustId == location

parsePreloadData ==
  CASE preload.kind = "absent" -> [data |-> Null, error |-> "errorMissingPreload"]
    [] preload.kind = "badjson" -> [data |-> Null, error |-> "errorParsePreload"]
    [] OTHER -> [data |-> Some(preload.data), error |-> ""]

Settled(p) == p.state \in {"fulfilled", "rejected"}

\* A resolution is running until its promise settles.
Running(id) == { p \in 1..Len(promises) : promises[p].illustId = id /\ ~Settled(promises[p]) }

\* A reaction job is queued: a settled promise still has an awaiting call.
MicrotaskPending == \E p \in 1..Len(promises) : Settled(promises[p]) /\ promises[p].waiters # <<>>

\* Unfinished: running, or settled with a call that has not resumed yet.
Unfinished(id) ==
  { p \in 1..Len(promises) : promises[p].illustId = id
                             /\ (~Settled(promises[p]) \/ promises[p].waiters # <<>>) }

\* Mutant of CacheHit: the cache is never consulted.
CacheHitNever(illustId) == FALSE

\* line 556
CacheHit(illustId) == cachedIllustId = illustId /\ cachedPayload # Null

\* Mutant of JoinsInflight: a call joins the resolution in flight of any id.
JoinsInflightAnyId(illustId) == inflightPromise # 0

\* Mutant of JoinsInflight: a call never joins the resolution in flight.
JoinsInflightNever(illustId) == FALSE

\* line 560
JoinsInflight(illustId) == inflightPromise # 0 /\ inflightIllustId = illustId

\* Mutant of ShouldCache: whatever the awaited promise yields is cached.
ShouldCacheAlways(ok, result) == TRUE

\* lines 563 and 590: the awaited promise fulfilled (ok) with result
ShouldCache(ok, result) == ok /\ result.success

\* Mutant of ClearsInflight: the finally block leaves the record as it is.
ClearsInflightNever(illustId) == FALSE

\* lines 598-601, in the finally block of the call that started the resolution
ClearsInflight(illustId) == inflightIllustId = illustId

\* Mutant of FetchPixivJsonFails: the error field of the JSON is not looked at.
FetchPixivJsonFailsOnlyStatus(kind) == kind = "http"

\* fetchPixivJson, lines 467-474: a non-2xx status or an error field throws
FetchPixivJsonFails(kind) == kind \in { "http", "apierror" }

\* the message of the error fetchPixivJson throws
FetchPixivJsonError(kind) ==
  IF kind = "http" THEN errorPixivRequestFailed ELSE errorPixivResponse

\* history: the log of a resolution gets entry when the answer of an endpoint
\* was a non-2xx status or carried an error field
AnswerLogged(r, entry, kind) ==
  IF kind \in { "http", "apierror" } THEN [r EXCEPT !.log = Append(@, entry)] ELSE r

\* buildResultFromAjax after both fetches: convert, extract, throw on failure.
FinishAjax(p, body, ugoiraMeta) ==
  LET normalized == convertAjaxToPreload(p.illustId, body, ugoiraMeta)
      result == collectIllustImages(p.illustId, normalized)
  IN  IF ~result.success
      THEN [p EXCEPT !.state = "rejected", !.value = Failure(result.error)]
      ELSE [p EXCEPT !.state = "fulfilled", !.value = result]

\* Mutant of StartResolution: a missing or unparsable embedded element, or
\* one without a usable record, ends the resolution.
StartResolutionEmbeddedFatal(illustId, c) ==
  LET parsed == parsePreloadData
      metaResult == IF parsed.data # Null
                    THEN collectIllustImages(illustId, parsed.data[1])
                    ELSE Failure(parsed.error)
  IN  [illustId |-> illustId,
       state |-> IF metaResult.success THEN "fulfilled" ELSE "rejected",
       value |-> metaResult,
       body |-> BodyOf(illustId, 0, NoUrls, <<>>, 0),
       log |-> << "parse" >>, embedded |-> metaResult.success, waiters |-> << c >>]

\* Mutant of StartResolution: the remote API is called although the embedded
\* data normalized.
StartResolutionRemoteAlways(illustId, c) ==
  [illustId |-> illustId, state |-> "illust", value |-> Failure(""),
   body |-> BodyOf(illustId, 0, NoUrls, <<>>, 0),
   log |-> << "parse", "illust" >>, embedded |-> FALSE, waiters |-> << c >>]

\* The async function of lines 573-583 up to its first suspension: the
\* embedded source, then (only if that did not succeed) the first remote fetch.
StartResolution(illustId, c) ==
  LET parsed == parsePreloadData
      metaResult == IF parsed.data # Null
                    THEN collectIllustImages(illustId, parsed.data[1])
                    ELSE Failure(parsed.error)
      fresh == [illustId |-> illustId, state |-> "illust", value |-> Failure(""),
                body |-> BodyOf(illustId, 0, NoUrls, <<>>, 0),
                log |-> << "parse" >>, embedded |-> FALSE, waiters |-> << c >>]
  IN  IF parsed.data # Null /\ metaResult.success
      THEN [fresh EXCEPT !.state = "fulfilled", !.value = metaResult, !.embedded = TRUE]
      ELSE [fresh EXCEPT !.log = << "parse", "illust" >>]

NewCall(illustId, pc, promise, via, result) ==
  [illustId |-> illustId, pc |-> pc, promise |-> promise, via |-> via,
   result |-> result]

\* history kept for the ids: a request for id is issued
ChainOnRequest(id, starts) ==
  [x \in Ids |->
     IF x # id THEN [chain[x] EXCEPT !.other = TRUE]
     ELSE IF ~starts THEN [chain[x] EXCEPT !.failed = FALSE]
     ELSE IF Unfinished(x) = {}
     THEN [other |-> FALSE, parses |-> 1, failed |-> FALSE,
           fetches |-> IF StartResolution(id, 0).state = "illust" THEN 1 ELSE 0]
     ELSE [chain[x] EXCEPT !.parses = @ + 1, !.failed = FALSE,
             !.fetches = @ + (IF StartResolution(id, 0).state = "illust" THEN 1 ELSE 0)]]

\* history kept for the ids: the resolution promises'[p] has just been resumed
ChainOnSettle(p) ==
  [chain EXCEPT ![promises[p].illustId].failed = @ \/ promises'[p].state = "rejected"]

\* collectPixivMedia, lines 547-589: the synchronous part of a call.
Request ==
  /\ UNCHANGED << dvars, fvars, cvars, bvars >>
  /\ Len(calls) < MaxCalls
  /\ ~MicrotaskPending
  /\ LET illustId == getIllustId
         c == Len(calls) + 1
     IN  IF illustId = 0
         THEN /\ calls' = Append(calls, NewCall(0, "done", 0, "none",
                                                Some(Failure(errorUnsupportedPage))))
              /\ UNCHANGED << promises, inflightPromise, inflightIllustId, chain >>
         ELSE IF CacheHit(illustId)
         THEN /\ calls' = Append(calls, NewCall(illustId, "done", 0, "cache", cachedPayload))
              /\ chain' = ChainOnRequest(illustId, FALSE)
              /\ UNCHANGED << promises, inflightPromise, inflightIllustId >>
         ELSE IF JoinsInflight(illustId)
         THEN /\ calls' = Append(calls, NewCall(illustId, "await", inflightPromise, "join", Null))
              /\ promises' = [promises EXCEPT ![inflightPromise].waiters = Append(@, c)]
              /\ chain' = ChainOnRequest(illustId, FALSE)
              /\ UNCHANGED << inflightPromise, inflightIllustId >>
         ELSE /\ promises' = Append(promises, StartResolution(illustId, c))
              /\ inflightIllustId' = illustId
              /\ inflightPromise' = Len(promises) + 1
              /\ calls' = Append(calls, NewCall(illustId, "await", Len(promises) + 1, "start", Null))
              /\ chain' = ChainOnRequest(illustId, TRUE)
  /\ UNCHANGED << location, lastPathname, preload, cachedIllustId, cachedPayload, navigations >>

\* buildResultFromAjax, lines 523-537, resumed by the answer of the illust endpoint.
IllustRespond ==
  /\ UNCHANGED << dvars, fvars, cvars, bvars >>
  /\ ~MicrotaskPending
  /\ \E p \in 1..Len(promises) :
       /\ promises[p].state = "illust"
       /\ \E resp \in IllustResponses(promises[p].illustId) :
            /\ promises' = [promises EXCEPT ![p] = AnswerLogged(
              CASE FetchPixivJsonFails(resp.kind) ->
                     [@ EXCEPT !.state = "rejected",
                               !.value = Failure(FetchPixivJsonError(resp.kind))]
                [] resp.kind = "nobody" ->
                     [@ EXCEPT !.state = "rejected", !.value = Failure(errorNoAjaxBody)]
                [] OTHER ->
                     IF resp.body.illustType = 2
                     THEN [@ EXCEPT !.state = "ugoira", !.body = resp.body,
                                    !.log = Append(@, "ugoira")]
                     ELSE FinishAjax(@, resp.body, Null),
              "illust-failed", resp.kind)]
            /\ chain' = ChainOnSettle(p)
  /\ UNCHANGED << location, lastPathname, preload, cachedIllustId, cachedPayload,
                  inflightPromise, inflightIllustId, calls, navigations >>

\* buildResultFromAjax, lines 531-544, resumed by the answer of ugoira_meta;
\* a failure of that fetch is caught and logged.
UgoiraRespond ==
  /\ UNCHANGED << dvars, fvars, cvars, bvars >>
  /\ ~MicrotaskPending
  /\ \E p \in 1..Len(promises) :
       /\ promises[p].state = "ugoira"
       /\ \E resp \in UgoiraResponses(promises[p].illustId) :
            /\ promises' = [promises EXCEPT ![p] =
                 AnswerLogged(IF FetchPixivJsonFails(resp.kind)
                              THEN FinishAjax(@, @.body, Null)
                              ELSE FinishAjax(@, @.body, Some(resp.meta)),
                              "ugoira-failed", resp.kind)]
            /\ chain' = ChainOnSettle(p)
  /\ UNCHANGED << location, lastPathname, preload, cachedIllustId, cachedPayload,
                  inflightPromise, inflightIllustId, calls, navigations >>

\* a joined call answers a rejection with the fixed text, not with the message
ReturnedGenericToJoiners(via, ok, result) ==
  IF ok THEN result
  ELSE IF via = "join" THEN Failure("Pixiv data could not be retrieved.")
  ELSE Failure(result.error)

\* What collectPixivMedia returns after its await (lines 562-570 for a call
\* that joined, lines 589-597 for the call that started the resolution): the
\* value of the promise, or a failure with the message of the rejection.
Returned(via, ok, result) ==
  IF ok THEN result ELSE Failure(result.error)

\* collectPixivMedia after its await: lines 562-570 for a call that joined,
\* lines 589-602 for the call that started the resolution.
Resume ==
  /\ UNCHANGED << dvars, fvars, cvars, bvars >>
  /\ \E p \in 1..Len(promises) :
      /\ Settled(promises[p])
      /\ promises[p].waiters # <<>>
      /\ LET c == Head(promises[p].waiters)
             illustId == calls[c].illustId
             ok == promises[p].state = "fulfilled"
             result == promises[p].value
         IN  /\ promises' = [promises EXCEPT ![p].waiters = Tail(@)]
             /\ calls' = [calls EXCEPT ![c].pc = "done",
                                       ![c].result = Some(Returned(calls[c].via, ok, result))]
             /\ IF ShouldCache(ok, result)
                THEN /\ cachedIllustId' = illustId
                     /\ cachedPayload' = Some(result)
                ELSE UNCHANGED << cachedIllustId, cachedPayload >>
             /\ IF calls[c].via = "start" /\ ClearsInflight(illustId)
                THEN /\ inflightIllustId' = 0
                     /\ inflightPromise' = 0
                ELSE UNCHANGED << inflightIllustId, inflightPromise >>
      /\ UNCHANGED << location, lastPathname, preload, navigations, chain >>

\* The page navigates through the history API: the path changes, the document
\* (and with it the embedded metadata element and this script) stays.
Navigate ==
  /\ UNCHANGED << dvars, fvars, cvars, bvars >>
  /\ ~MicrotaskPending
  /\ navigations < MaxNavigations
  /\ \E to \in 0..NumIds :
       /\ to # location
       /\ location' = to
  /\ navigations' = navigations + 1
  /\ UNCHANGED << preload, lastPathname, cachedIllustId, cachedPayload, inflightPromise,
                  inflightIllustId, promises, calls, chain >>

\* initOverlay, lines 1171-1179: the interval that watches the path.
PathWatcher ==
  /\ UNCHANGED << dvars, fvars, cvars, bvars >>
  /\ ~MicrotaskPending
  /\ location # lastPathname
  /\ lastPathname' = location
  /\ cachedIllustId' = 0
  /\ cachedPayload' = Null
  /\ UNCHANGED << location, preload, inflightPromise, inflightIllustId, promises,
                  calls, navigations, chain >>

\* attachButtonIfNeeded, lines 859-865, on a page that is no artwork page.
AttachButtonIfNeeded ==
  /\ UNCHANGED << dvars, fvars, cvars, bvars >>
  /\ ~MicrotaskPending
  /\ getIllustId = 0
  /\ cachedPayload # Null \/ cachedIllustId # 0
  /\ cachedIllustId' = 0
  /\ cachedPayload' = Null
  /\ UNCHANGED << location, lastPathname, preload, inflightPromise, inflightIllustId,
                  promises, calls, navigations, chain >>

ResolverInit ==
  /\ location = 1
  /\ lastPathname = location
  /\ preload \in Preloads
  /\ cachedIllustId = 0
  /\ cachedPayload = Null
  /\ inflightPromise = 0
  /\ inflightIllustId = 0
  /\ promises = <<>>
  /\ calls = <<>>
  /\ navigations = 0
  /\ chain = [x \in Ids |-> [other |-> FALSE, parses |-> 0, fetches |-> 0, failed |-> FALSE]]
  /\ DownloaderOff
  /\ FunctionsOff
  /\ ClickOff
  /\ BackgroundOff

ResolverNext ==
  \/ Request
  \/ IllustRespond
  \/ UgoiraRespond
  \/ Resume
  \/ Navigate
  \/ PathWatcher
  \/ AttachButtonIfNeeded

ResolverSpec == ResolverInit /\ [][ResolverNext]_<< rvars, dvars, fvars, cvars, bvars >>

(***************************************************************************)
(* Properties of the resolver.                                             *)
(***************************************************************************)
EmbeddedNormalizes(id) ==
  preload.kind = "json" /\ collectIllustImages(id, preload.data).success

IsRequestFor(x) == Len(calls') = Len(calls) + 1 /\ location = x

\* C1: requests for the same id X issued while the first resolution of X has
\* not settled, with no request for another id in between, run one resolution:
\* since the resolution of X that started with none of X running, as long as
\* no request for another id was issued, the embedded metadata was parsed at
\* most once and the illust endpoint fetched at most once for X, and at most
\* one resolution of X is unfinished.
C1_SingleFlightSameId ==
  \A x \in Ids :
    ~chain[x].other =>
      /\ chain[x].parses <= 1
      /\ chain[x].fetches <= 1
      /\ Cardinality(Unfinished(x)) <= 1

\* Two finished calls for one id shared one resolution of the remote path,
\* with no request for another id in between.
C1_Witness ==
  \E c1, c2 \in 1..Len(calls) :
    /\ c1 < c2
    /\ calls[c1].via = "start" /\ calls[c2].via = "join"
    /\ calls[c1].promise = calls[c2].promise
    /\ calls[c1].pc = "done" /\ calls[c2].pc = "done"
    /\ ~chain[calls[c1].illustId].other
    /\ chain[calls[c1].illustId].fetches = 1

\* C2: at every moment and for every illust id at most one resolution of that
\* id is running, whatever the interleaving of calls and navigations.
C2_AtMostOneRunningPerId ==
  \A x \in Ids : Cardinality(Running(x)) <= 1

\* C3: in every resolution the embedded source is tried first and only once,
\* and when the embedded data normalizes for the id no remote endpoint
\* (illust detail, ugoira_meta) is called in that resolution.
C3_EmbeddedBeforeRemote ==
  \A p \in 1..Len(promises) :
    LET r == promises[p] IN
      /\ r.log[1] = "parse"
      /\ \A i \in 2..Len(r.log) : r.log[i] # "parse"
      /\ EmbeddedNormalizes(r.illustId) => r.log = << "parse" >>

\* A call was answered from the embedded data although a remote path exists.
C3_Witness ==
  \E c \in 1..Len(calls) :
    /\ calls[c].via = "start" /\ calls[c].pc = "done"
    /\ EmbeddedNormalizes(calls[c].illustId)
    /\ promises[calls[c].promise].log = << "parse" >>
    /\ calls[c].result[1].success

\* C5: a call for X made while a successful result for X is cached returns
\* that result at once: it creates no resolution, so nothing is parsed or
\* fetched.
C5_CachedResultReturned ==
  [][ \A x \in Ids :
        (IsRequestFor(x) /\ cachedIllustId = x /\ cachedPayload # Null
           /\ cachedPayload[1].success)
        => /\ calls'[Len(calls')].pc = "done"
           /\ calls'[Len(calls')].result = cachedPayload
           /\ promises' = promises ]_rvars

\* A call was answered from the cache, after an earlier call filled it.
C5_Witness ==
  \E c \in 1..Len(calls) :
    /\ calls[c].via = "cache"
    /\ calls[c].result[1].success
    /\ calls[c].result[1].illustId = calls[c].illustId
    /\ Len(promises) = 1

Min(a, b) == IF a < b THEN a ELSE b
Max(a, b) == IF a > b THEN a ELSE b

\* String.slice(from, to) with 0 <= from
Slice(s, from, to) == SubSeq(s, from + 1, Min(to, Len(s)))

\* \x00-\x1F: tab, line feed, and ^A for the ones that are no white space
ControlChars == { "\t", "\n", "^A" }
\* /[<>:"/\\|?*\x00-\x1F]/
IllegalChars == { "<", ">", ":", "\"", "/", "\\", "|", "?", "*" } \cup ControlChars
\* \s
WhiteSpace == { " ", "\t", "\n" }

\* String.normalize("NFKC") on the compatibility characters of the model:
\* the full-width solidus becomes "/", the ligature fi becomes "f" "i".
NFKC(s) ==
  LET \* the position in the result of the last character that s[k] becomes
      EndOf(k) == k + Cardinality({ i \in 1..k : s[i] = "U+FB01" })
      SourceOf(j) == CHOOSE k \in 1..Len(s) :
                       EndOf(k) >= j /\ \A i \in 1..(k - 1) : EndOf(i) < j
  IN  IF \A k \in 1..Len(s) : s[k] # "U+FB01"
      THEN [k \in 1..Len(s) |-> IF s[k] = "U+FF0F" THEN "/" ELSE s[k]]
      ELSE [j \in 1..EndOf(Len(s)) |->
              LET k == SourceOf(j) IN
              CASE s[k] = "U+FF0F" -> "/"
                [] s[k] = "U+FB01" -> IF j = EndOf(k) THEN "i" ELSE "f"
                [] OTHER -> s[k]]

UpperLetters == << "A", "B", "C", "D", "E", "F", "G", "H", "I", "J", "K", "L", "M",
                   "N", "O", "P", "Q", "R", "S", "T", "U", "V", "W", "X", "Y", "Z" >>
LowerLetters == << "a", "b", "c", "d", "e", "f", "g", "h", "i", "j", "k", "l", "m",
                   "n", "o", "p", "q", "r", "s", "t", "u", "v", "w", "x", "y", "z" >>

LowerChar(c) ==
  IF \E k \in 1..Len(UpperLetters) : UpperLetters[k] = c
  THEN LowerLetters[CHOOSE k \in 1..Len(UpperLetters) : UpperLetters[k] = c]
  ELSE c

\* String.toLowerCase()
ToLowerCase(s) == [k \in 1..Len(s) |-> LowerChar(s[k])]

\* .replace(/[<>:"/\\|?*\x00-\x1F]/g, " ")
ReplaceIllegal(s) == [k \in 1..Len(s) |-> IF s[k] \in IllegalChars THEN " " ELSE s[k]]

\* .replace(/\s+/g, " ")
\* of a run of white space the last character stays, as a space
CollapseWhiteSpace(s) ==
  LET marked == [k \in 1..Len(s) |->
                   IF s[k] \notin WhiteSpace THEN s[k]
                   ELSE IF k < Len(s) /\ s[k + 1] \in WhiteSpace THEN ""
                   ELSE " "]
      Kept(c) == c # ""
  IN  SelectSeq(marked, Kept)

RECURSIVE TrimStart(_)
TrimStart(s) == IF s # <<>> /\ Head(s) \in WhiteSpace THEN TrimStart(Tail(s)) ELSE s

RECURSIVE TrimEnd(_)
TrimEnd(s) == IF s # <<>> /\ s[Len(s)] \in WhiteSpace
              THEN TrimEnd(SubSeq(s, 1, Len(s) - 1)) ELSE s

\* String.trim()
Trim(s) == TrimEnd(TrimStart(s))

\* .replace(/\.+$/g, "")
RECURSIVE StripTrailingDots(_)
StripTrailingDots(s) == IF s # <<>> /\ s[Len(s)] = "."
                        THEN StripTrailingDots(SubSeq(s, 1, Len(s) - 1)) ELSE s

\* the chain replace / replace / trim / replace / trim of lines 389-393, 402-406
CleanSegment(s) ==
  Trim(StripTrailingDots(Trim(CollapseWhiteSpace(ReplaceIllegal(s)))))

\* 1-based position of the last "." of s, 0 when there is none
LastDot(s) == IF \E k \in 1..Len(s) : s[k] = "."
              THEN CHOOSE k \in 1..Len(s) : s[k] = "." /\ \A j \in (k + 1)..Len(s) : s[j] # "."
              ELSE 0

\* lines 140-163, lower-cased
WINDOWS_RESERVED_NAMES ==
  { << "c", "o", "n" >>, << "p", "r", "n" >>, << "a", "u", "x" >>, << "n", "u", "l" >> }
  \cup { << "c", "o", "m", DigitChars[d + 1] >> : d \in 1..9 }
  \cup { << "l", "p", "t", DigitChars[d + 1] >> : d \in 1..9 }

ensureSafePathSegment(value) ==
  LET normalized == CleanSegment(value)
  IN  IF normalized = <<>> THEN << "_" >>
      ELSE IF ToLowerCase(normalized) \in WINDOWS_RESERVED_NAMES
      THEN normalized \o << "_" >>
      ELSE normalized

SegmentLimit == 80

sanitizeSegment(segment, fallback) ==
  LET cleaned == CleanSegment(NFKC(segment))
      candidate == IF cleaned = <<>> THEN fallback ELSE Slice(cleaned, 0, SegmentLimit)
  IN  ensureSafePathSegment(candidate)

\* Date.now() printed: thirteen digits
NowText == << "1", "7", "0", "0", "0", "0", "0", "0", "0", "0", "0", "0", "0" >>

truncateFilename(name, maxLength) ==
  IF name = <<>> THEN << "f", "i", "l", "e", "." >> \o NowText
  ELSE IF Len(name) <= maxLength THEN name
  ELSE LET dot == LastDot(name) IN
       \* dotIndex > 0 && dotIndex < name.length - 1, with dotIndex = dot - 1
       IF dot > 1 /\ dot < Len(name)
       THEN LET extension == SubSeq(name, dot, Len(name))
                baseLength == Max(1, maxLength - Len(extension))
            IN  Slice(name, 0, baseLength) \o extension
       ELSE Slice(name, 0, maxLength)

ensureSafeFilename(name) ==
  LET trimmed == Trim(StripTrailingDots(name))
      dot == LastDot(trimmed)
  IN  IF dot > 1 /\ dot < Len(trimmed)
      THEN ensureSafePathSegment(SubSeq(trimmed, 1, dot - 1)) \o SubSeq(trimmed, dot, Len(trimmed))
      ELSE ensureSafePathSegment(trimmed)

\* The characters of the fixed parts of an asset URL.
TextOf(token) ==
  CASE token = "png" -> << "p", "n", "g" >>
    [] token = "jpg" -> << "j", "p", "g" >>
    [] token = "JPG" -> << "J", "P", "G" >>
    [] token = "PNG" -> << "P", "N", "G" >>
    [] token = "zip" -> << "z", "i", "p" >>
    [] token = "html" -> << "h", "t", "m", "l" >>
    \* an extension as long as a file name may be
    [] token = "long" -> Repeat("x", 120)
    \* an extension as long as a whole path may be
    [] token = "huge" -> Repeat("x", 240)
    [] token = "_master1200" -> << "_", "m", "a", "s", "t", "e", "r", "1", "2", "0", "0" >>
    [] token = "_ugoira1920x1080" ->
         << "_", "u", "g", "o", "i", "r", "a", "1", "9", "2", "0", "x", "1", "0", "8", "0" >>
    [] OTHER -> <<>>

\* new URL(url).pathname, last non-empty segment; null (<<>>) for no URL
extractFilenameFromUrl(url) ==
  IF ~Truthy(url) THEN <<>>
  ELSE DigitsOf(url.stem)
       \o (IF url.page >= 0 THEN << "_", "p" >> \o DigitsOf(url.page) ELSE <<>>)
       \o TextOf(url.suffix)
       \o (IF url.ext # "" THEN << "." >> \o TextOf(url.ext) ELSE <<>>)

AlphaNum == { DigitChars[k] : k \in 1..10 } \cup { LowerLetters[k] : k \in 1..26 }
            \cup { UpperLetters[k] : k \in 1..26 }

\* /\.([a-z0-9]+)(?:$|\?)/i on the file name (a path name holds no "?")
getExtensionFromUrl(url) ==
  LET filename == extractFilenameFromUrl(url)
      dot == LastDot(filename)
  IN  IF dot > 0 /\ dot < Len(filename)
         /\ \A k \in (dot + 1)..Len(filename) : filename[k] \in AlphaNum
      THEN ToLowerCase(SubSeq(filename, dot + 1, Len(filename)))
      ELSE << "j", "p", "g" >>

RECURSIVE JoinPath(_)
JoinPath(parts) == IF Len(parts) = 1 THEN parts[1]
                   ELSE parts[1] \o << "/" >> \o JoinPath(Tail(parts))

\* Set.add over a list, keeping insertion order
RECURSIVE AddAll(_, _)
AddAll(set, list) ==
  IF list = <<>> THEN set
  ELSE AddAll(IF Contains(set, Head(list)) THEN set ELSE Append(set, Head(list)), Tail(list))

FilenameLimit == 120
PathLimit == 240

\* String(n).padStart(2, "0")
PadStart2(n) == IF n < 10 THEN << "0" >> \o DigitsOf(n) ELSE DigitsOf(n)

antiTheftTagText == << "_", "_", "p", "i", "x", "i", "v", "-", "o", "n", "l", "y" >>

\* meta: [illustId, title, author] as text; image.page = -1: no number;
\* settings: currentSettings
buildDownloadPathCandidates(meta, image, index, downloadUrl, settings) ==
  LET sourceUrl == IF Truthy(downloadUrl) THEN downloadUrl ELSE image.url
      extension == getExtensionFromUrl(sourceUrl)
      pageLabel == IF image.page >= 0 THEN << "p" >> \o PadStart2(image.page) \o << "_" >>
                   ELSE <<>>
      safeAuthor == sanitizeSegment(meta.author, << "P", "i", "x", "i", "v" >>)
      safeTitle == sanitizeSegment(meta.title, meta.illustId)
      safeIllustId == ensureSafePathSegment(IF meta.illustId # <<>> THEN meta.illustId
                                            ELSE << "p", "i", "x", "i", "v" >>)
      safeFolder == ensureSafePathSegment(safeIllustId \o << "-" >> \o safeTitle)
      simpleFolder == ensureSafePathSegment(safeIllustId)
      safeRoot == ensureSafePathSegment(IF settings.rootFolder # <<>> THEN settings.rootFolder
                                        ELSE << "P", "i", "x", "i", "v" >>)
      antiTheftTag == IF settings.antiTheft THEN antiTheftTagText ELSE <<>>
      baseName == ensureSafeFilename(truncateFilename(
                    pageLabel \o safeIllustId \o << "_", "b", "y", "_" >> \o safeAuthor
                      \o antiTheftTag \o << "." >> \o extension, FilenameLimit))
      originalName == IF extractFilenameFromUrl(sourceUrl) # <<>>
                      THEN extractFilenameFromUrl(sourceUrl)
                      ELSE safeIllustId \o << "." >> \o extension
      labeledOriginal == ensureSafeFilename(truncateFilename(pageLabel \o originalName,
                                                             FilenameLimit))
      backupName == ensureSafeFilename(truncateFilename(
                      pageLabel \o safeIllustId \o << "." >> \o extension, FilenameLimit))
      fileNames == << baseName, labeledOriginal, backupName >>
      pathOptions == << << safeRoot, safeAuthor, safeFolder >>,
                        << safeRoot, safeAuthor, simpleFolder >>,
                        << safeRoot, simpleFolder >>,
                        << safeRoot >> >>
      nested == [k \in 1..(Len(pathOptions) * Len(fileNames)) |->
                   JoinPath(pathOptions[((k - 1) \div Len(fileNames)) + 1])
                     \o << "/" >> \o fileNames[((k - 1) % Len(fileNames)) + 1]]
      withinLimit(path) == Len(path) <= PathLimit
      pathCandidates == AddAll(AddAll(<<>>, SelectSeq(nested, withinLimit)),
                               SelectSeq(fileNames, withinLimit))
  IN  IF pathCandidates = <<>>
      THEN << safeIllustId \o << "_" >> \o NowText \o << "." >> \o extension >>
      ELSE pathCandidates

(***************************************************************************)
(* Background script: settings.                                            *)
(***************************************************************************)
PixivText == << "P", "i", "x", "i", "v" >>

\* lines 9-18
DEFAULT_SETTINGS ==
  [language |-> "en", range |-> "all", customRangeStart |-> 1, customRangeEnd |-> 1,
   antiTheft |-> TRUE, overlay |-> TRUE, rootFolder |-> PixivText, retryFailed |-> TRUE]

RangeMax == 9999

\* Mutant of clampNumber: a finite number is kept as it is.
clampNumberUnclamped(value, min, max, fallback) ==
  IF value = Null THEN fallback ELSE value[1]

\* clampNumber for a number; value = Null: Number(value) is not finite
clampNumber(value, min, max, fallback) ==
  IF value = Null THEN fallback ELSE Min(max, Max(min, value[1]))

normalizeLanguage(value) ==
  IF value \in { "en", "ja", "zh_CN" } THEN value ELSE DEFAULT_SETTINGS.language

sanitizeRootFolder(value) ==
  LET candidate == Slice(NFKC(IF value # <<>> THEN value ELSE DEFAULT_SETTINGS.rootFolder),
                         0, SegmentLimit)
  IN  IF ensureSafePathSegment(candidate) # <<>> THEN ensureSafePathSegment(candidate)
      ELSE DEFAULT_SETTINGS.rootFolder

\* raw: numbers are Some(n) or Null (not a finite number), the flags are
\* Some(TRUE), Some(FALSE) or Null (any value that is no boolean)
sanitizeSettings(raw) ==
  LET start == clampNumber(raw.customRangeStart, 1, RangeMax, DEFAULT_SETTINGS.customRangeStart)
  IN  [language |-> normalizeLanguage(raw.language),
       range |-> IF raw.range \in { "prompt", "custom", "all" } THEN raw.range
                 ELSE DEFAULT_SETTINGS.range,
       customRangeStart |-> start,
       customRangeEnd |-> clampNumber(raw.customRangeEnd, start, RangeMax,
                                      Max(DEFAULT_SETTINGS.customRangeEnd, start)),
       antiTheft |-> raw.antiTheft # Some(FALSE),
       overlay |-> raw.overlay # Some(FALSE),
       rootFolder |-> sanitizeRootFolder(raw.rootFolder),
       retryFailed |-> raw.retryFailed # Some(FALSE)]

\* { ...currentSettings, ...partial } as a raw record; partial is a function
\* from the keys it sets to raw values
MergeSettings(settings, partial) ==
  LET base == [settings EXCEPT !.customRangeStart = Some(@), !.customRangeEnd = Some(@),
                               !.antiTheft = Some(@), !.overlay = Some(@),
                               !.retryFailed = Some(@)]
  IN  [k \in DOMAIN base |-> IF k \in DOMAIN partial THEN partial[k] ELSE base[k]]

\* updateSettings up to its first await: lines 329-331
updateSettings(settings, partial) == sanitizeSettings(MergeSettings(settings, partial))

(***************************************************************************)
(* Background script: fetchImageData and the messages of its errors.       *)
(***************************************************************************)
errorDownloadImageFailed(status) == << "errorDownloadImageFailed", status >>
unexpectedContentType(contentType) ==
  << "Unexpected content type", IF contentType # "" THEN contentType ELSE "unknown" >>
failedToFetch == << "Failed to fetch" >>

\* ACCEPTABLE_CONTENT_TYPES: /^image\//i and /application\/zip/i over the
\* content types of the responses below
ContentTypes == { "", "text/html", "image/png", "IMAGE/JPEG", "application/zip" }
\* every content type passes
AcceptableAny(contentType) == TRUE

Acceptable(contentType) == contentType \in { "image/png", "IMAGE/JPEG", "application/zip" }

Thrown(message) == [ok |-> FALSE, message |-> message]

\* response: what fetch gave for url.  threw: fetch or arrayBuffer() rejected;
\* url: response.url ("" when the response has none)
fetchImageData(url, response) ==
  IF response.threw THEN Thrown(failedToFetch)
  ELSE IF ~response.ok THEN Thrown(errorDownloadImageFailed(response.status))
  ELSE IF ~Acceptable(response.contentType)
       THEN Thrown(unexpectedContentType(response.contentType))
  ELSE [ok |-> TRUE, arrayBuffer |-> response.bytes,
        contentType |-> IF response.contentType # "" THEN response.contentType
                        ELSE "application/octet-stream",
        finalUrl |-> IF Truthy(response.url) THEN response.url ELSE url]

(***************************************************************************)
(* Background script: triggerDownloads.  A batch is the record of the      *)
(* local variables of one call; pc names the await the call is parked at   *)
(* and issue is the request the last step of the call sent out.            *)
(***************************************************************************)
Includes(s, needle) ==
  \E k \in 0..(Len(s) - Len(needle)) : SubSeq(s, k + 1, k + Len(needle)) = needle

invalidFilename == << "i", "n", "v", "a", "l", "i", "d", " ", "f", "i", "l", "e", "n", "a", "m", "e" >>
pathTooLong == << "p", "a", "t", "h", " ", "t", "o", "o", " ", "l", "o", "n", "g" >>

\* every failure of the sink taken for a rejected path
IsPathRejectionAlways(message) == TRUE

\* line 839, message already lower-cased
IsPathRejection(message) == Includes(message, invalidFilename) \/ Includes(message, pathTooLong)


\* one attempt more than the source makes
MaxAttemptsOneMore(settings) == IF settings.retryFailed = FALSE THEN 2 ELSE 5

\* line 808
MaxAttemptsFor(settings) == IF settings.retryFailed = FALSE THEN 1 ELSE 4


\* `${i + 1}/${meta.images.length}`
BadgeProgress(i, total) == DigitsOf(i + 1) \o << "/" >> \o DigitsOf(total)

\* lines 888-894: the text finalizeBadge sets for a tab. The literal of line
\* 889 is the three characters U+00E2 U+0153 U+201D.
finalizeBadge(totalCount, errorCount) ==
  IF errorCount = 0 THEN << "U+00E2", "U+0153", "U+201D" >>
  ELSE IF errorCount >= totalCount THEN << "E", "R", "R" >>
  ELSE DigitsOf(totalCount - errorCount)

NewBatch ==
  [pc |-> "idle", i |-> 0, candidates |-> <<>>, ci |-> 0, seen |-> {},
   downloaded |-> FALSE, lastError |-> Null, maxAttempts |-> 0, attempt |-> 0,
   fetched |-> Null, pathCandidates |-> <<>>, pi |-> 0, pathError |-> Null,
   errors |-> <<>>, badge |-> <<>>, issue |-> Null,
   badges |-> <<>>]    \* history: the progress texts set at line 802, in order

Candidate(b) == b.candidates[b.ci]

FetchOp(b) ==
  [op |-> "fetch", asset |-> b.i, url |-> Candidate(b), filename |-> <<>>, dataUrl |-> Null]

\* the options of downloadsDownload: the data URL is made of the content type
\* and the bytes of the fetch
CommitOp(b) ==
  [op |-> "commit", asset |-> b.i, url |-> Candidate(b),
   filename |-> b.pathCandidates[b.pi],
   dataUrl |-> Some([contentType |-> b.fetched[1].contentType,
                     bytes |-> b.fetched[1].arrayBuffer])]

\* line 818: await fetchImageData(candidate)
IssueFetch(b) == [b EXCEPT !.pc = "fetch", !.issue = Some(FetchOp(b))]

\* line 828: await downloadsDownload(...)
IssueCommit(b) == [b EXCEPT !.pc = "commit", !.issue = Some(CommitOp(b))]

\* repeated candidates not skipped
SkipsCandidateOnlyEmpty(b) == ~Truthy(Candidate(b))

\* line 811
SkipsCandidate(b) == ~Truthy(Candidate(b)) \/ Candidate(b) \in b.seen


\* the candidates after a saved one are tried as well
StopsAfterCandidateNever(b) == FALSE

\* line 862
StopsAfterCandidate(b) == b.downloaded


\* an entry for every asset, saved or not
RecordsFailureAlways(b) == TRUE

\* line 867
RecordsFailure(b) == ~b.downloaded


\* line 868
ErrorMessage(lastError) ==
  IF lastError # Null /\ lastError[1] # <<>> THEN lastError[1]
  ELSE errorDownloadImageFailed("?")

\* lines 867-871
EndAsset(b, m) ==
  IF RecordsFailure(b)
  THEN [b EXCEPT !.errors = Append(@, [url |-> m.images[b.i + 1].url,
                                       error |-> ErrorMessage(b.lastError)])]
  ELSE b

\* the locals of one candidate are gone when its loop body is left
LeaveCandidate(b) ==
  [b EXCEPT !.attempt = 0, !.fetched = Null, !.pathCandidates = <<>>, !.pi = 0,
            !.pathError = Null]

RECURSIVE NextAsset(_, _, _)
RECURSIVE NextCandidate(_, _, _)

\* line 800 with b.i the asset to take, up to the next await
NextAsset(b, m, settings) ==
  IF b.i >= Len(m.images)
  THEN [b EXCEPT !.pc = "done", !.candidates = <<>>, !.ci = 0, !.seen = {},
                 !.downloaded = FALSE, !.lastError = Null, !.maxAttempts = 0]
  ELSE LET image == m.images[b.i + 1]
       IN  NextCandidate([b EXCEPT !.badge = BadgeProgress(b.i, Len(m.images)),
                                   !.badges = Append(@, BadgeProgress(b.i, Len(m.images))),
                                   !.candidates = << image.url >> \o image.fallbacks,
                                   !.ci = 1,
                                   !.seen = {},
                                   !.downloaded = FALSE,
                                   !.lastError = Null,
                                   !.maxAttempts = MaxAttemptsFor(settings)],
                         m, settings)

\* line 810 with b.ci the candidate to take, up to the next await
NextCandidate(b, m, settings) ==
  IF b.ci > Len(b.candidates)
  THEN NextAsset([EndAsset(b, m) EXCEPT !.i = @ + 1], m, settings)
  ELSE IF SkipsCandidate(b)
       THEN NextCandidate([b EXCEPT !.ci = @ + 1], m, settings)
       ELSE IssueFetch([b EXCEPT !.seen = @ \cup { Candidate(b) }, !.attempt = 0])

\* lines 862-865: after the attempts of a candidate
AfterAttempts(b, m, settings) ==
  IF StopsAfterCandidate(b)
  THEN NextAsset([EndAsset(LeaveCandidate(b), m) EXCEPT !.i = @ + 1], m, settings)
  ELSE NextCandidate([LeaveCandidate(b) EXCEPT !.ci = @ + 1], m, settings)

\* lines 846-852: after the paths of a fetched candidate, none saved
AfterPaths(b, m, settings) ==
  AfterAttempts([b EXCEPT !.lastError = IF b.pathError # Null THEN b.pathError ELSE @],
                m, settings)

\* line 826 with b.pi the path to take
TryPath(b, m, settings) ==
  IF b.pi > Len(b.pathCandidates) THEN AfterPaths(b, m, settings) ELSE IssueCommit(b)

\* The badge after a step of the batch: both callers (lines 962 and 1006)
\* call finalizeBadge with the number of images and of errors as soon as
\* triggerDownloads has returned; they have returned before for no tab id.
BadgeAfter(b, m) ==
  IF b.pc = "done" THEN finalizeBadge(Len(m.images), Len(b.errors)) ELSE b.badge

\* triggerDownloads from its call to its first await; settings is
\* currentSettings after the updateSettings call of lines 788-798
OnStart(m, settings) == NextAsset(NewBatch, m, settings)

\* lines 818-825 and 853-859: the fetch of line 818 is answered
OnFetched(b, m, settings, result) ==
  LET b0 == [b EXCEPT !.issue = Null]
  IN  IF result.ok
      THEN TryPath([b0 EXCEPT !.fetched = Some(result),
                              !.pathCandidates =
                                 buildDownloadPathCandidates(m, m.images[b.i + 1], b.i,
                                                             result.finalUrl, settings),
                              !.pi = 1,
                              !.pathError = Null],
                   m, settings)
      ELSE LET b1 == [b0 EXCEPT !.lastError = Some(result.message)]
           IN  IF b.attempt < b.maxAttempts - 1
               THEN [b1 EXCEPT !.pc = "delay"]
               ELSE AfterAttempts(b1, m, settings)

\* the attempt is not counted
OnDelaySameAttempt(b) == IssueFetch([b EXCEPT !.issue = Null])

\* line 856: the timer of the delay fires
OnDelay(b) == IssueFetch([b EXCEPT !.issue = Null, !.attempt = @ + 1])

\* lines 834-852: the download of line 828 is answered
OnCommitted(b, m, settings, result) ==
  LET b0 == [b EXCEPT !.issue = Null]
  IN  IF result.ok
      THEN AfterAttempts([b0 EXCEPT !.downloaded = TRUE], m, settings)
      ELSE LET b1 == [b0 EXCEPT !.pathError = Some(result.message)]
           IN  IF IsPathRejection(ToLowerCase(result.message))
               THEN TryPath([b1 EXCEPT !.pi = @ + 1], m, settings)
               ELSE AfterPaths(b1, m, settings)

(***************************************************************************)
(* The downloader: one batch of triggerDownloads against the network, the  *)
(* download sink, the timers and the settings messages.                    *)
(***************************************************************************)
MaxImages == 2
MaxSettingsUpdates == 1

\* The content script is left out of the specification of the downloader.
ResolverOff ==
  /\ location = 0
  /\ lastPathname = 0
  /\ preload = <<>>
  /\ cachedIllustId = 0
  /\ cachedPayload = Null
  /\ inflightPromise = 0
  /\ inflightIllustId = 0
  /\ promises = <<>>
  /\ calls = <<>>
  /\ navigations = 0
  /\ chain = <<>>

\* Images of a download request: page k of illust 1 with no fallbacks, or with
\* a fallback list that has an empty entry, the url of the image again and a
\* repeated entry.
PlainImage(k) ==
  [url |-> Original(1, k, "png"), page |-> k, variant |-> "page", fallbacks |-> <<>>]
ChainImage(k) ==
  [url |-> Original(1, k, "png"), page |-> k, variant |-> "page",
   fallbacks |-> << Master(1, k), NoUrl, Original(1, k, "png"), Master(1, k) >>]

ImageLists ==
  UNION { [1..n -> { "plain", "chain" }] : n \in 1..MaxImages }

ImagesOf(shapes) ==
  [k \in 1..Len(shapes) |-> IF shapes[k] = "plain" THEN PlainImage(k - 1)
                            ELSE ChainImage(k - 1)]

SelectAll == [mode |-> "all", start |-> Null, end |-> Null]
SelectRange(start, end) == [mode |-> "range", start |-> Some(start), end |-> Some(end)]

DownloadMetas ==
  { [tabId |-> 1, illustId |-> DigitsOf(1), title |-> << "t" >>, author |-> << "a" >>,
     images |-> ImagesOf(shapes), selection |-> selection] :
      shapes \in ImageLists,
      selection \in { SelectAll, SelectRange(1, MaxImages) } }

\* Number(value) || fallback
NumberOr(value, fallback) == IF value = Null \/ value[1] = 0 THEN fallback ELSE value[1]

\* the range is not stored
SettingsAfterSelectionForgets(settings, m) == settings

\* lines 788-798: currentSettings after the call of updateSettings
SettingsAfterSelection(settings, m) ==
  IF m.selection.mode = "range"
  THEN LET start == NumberOr(m.selection.start, 1)
           end == NumberOr(m.selection.end, start)
       IN  updateSettings(settings, [k \in { "customRangeStart", "customRangeEnd" } |->
                                       IF k = "customRangeStart" THEN Some(start)
                                       ELSE Some(end)])
  ELSE settings

\* What fetch can give for a request; bytes names the body of this answer.
FetchResponses(op, bytes) ==
  { [threw |-> TRUE, ok |-> FALSE, status |-> "", contentType |-> "", bytes |-> <<>>,
     url |-> NoUrl],
    [threw |-> FALSE, ok |-> FALSE, status |-> "404", contentType |-> "text/html",
     bytes |-> << "not found", bytes >>, url |-> op.url],
    [threw |-> FALSE, ok |-> TRUE, status |-> "200", contentType |-> "text/html",
     bytes |-> << "page", bytes >>, url |-> op.url],
    [threw |-> FALSE, ok |-> TRUE, status |-> "200", contentType |-> "image/png",
     bytes |-> bytes, url |-> op.url] }

\* What downloads.download can give: a download id, a rejection of the path,
\* or another failure.
SinkResults ==
  { [ok |-> TRUE, kind |-> "saved", message |-> <<>>],
    [ok |-> FALSE, kind |-> "rejected", message |-> << "I", "n", "v", "a", "l", "i", "d", " ", "f", "i", "l", "e", "n", "a", "m", "e" >>],
    [ok |-> FALSE, kind |-> "rejected", message |-> << "P", "a", "t", "h", " ", "t", "o", "o", " ", "l", "o", "n", "g" >>],
    [ok |-> FALSE, kind |-> "failed", message |-> << "C", "a", "n", "c", "e", "l", "e", "d" >>] }

\* The payloads of PIXIV_SETTINGS_UPDATED.
SettingsPayloads ==
  { [k \in { "retryFailed" } |-> Some(v)] : v \in BOOLEAN }

NoOp == [op |-> "none", asset |-> 0, url |-> NoUrl, filename |-> <<>>, dataUrl |-> Null]

Event(kind, op, outcome, b) ==
  [kind |-> kind, op |-> op, outcome |-> outcome, pi |-> b.pi,
   npaths |-> Len(b.pathCandidates)]

\* History of one candidate: the url of an asset that the batch fetches.
NoCandidate ==
  [asset |-> -1, url |-> NoUrl,
   fetches |-> 0,      \* fetches made
   assetFetches |-> 0, \* fetches made for its asset, its own included
   failed |-> 0,       \* fetches that failed
   closed |-> FALSE,   \* its download finally failed
   saved |-> FALSE,    \* its download succeeded
   retry |-> Null]     \* retryFailed when its asset was taken

\* How the batch left a candidate: saved, closed, failed (every fetch of it
\* failed) or open (it had a fetch or a download under way).
NoEnding == [asset |-> -1, url |-> NoUrl, ended |-> "none"]
Ending(c) ==
  IF c.asset = -1 THEN NoEnding
  ELSE [asset |-> c.asset, url |-> c.url,
        ended |-> IF c.saved THEN "saved"
                  ELSE IF c.closed THEN "closed"
                  ELSE IF c.failed = c.fetches THEN "failed"
                  ELSE "open"]

NewObs(n) ==
  [cur |-> NoCandidate,                    \* the candidate fetched last
   prev |-> NoEnding,                      \* the end of the candidate before cur
   attempted |-> [a \in 1..n |-> FALSE],   \* a fetch was made for the asset
   saved |-> [a \in 1..n |-> 0],           \* download calls that succeeded
   lastMessage |-> [a \in 1..n |-> Null]]  \* the last failure of an asset not saved

\* the history after a step that left the batch as b1
ObserveStep(o, b1, settings) ==
  IF b1.issue = Null \/ b1.issue[1].op # "fetch" THEN o
  ELSE LET op == b1.issue[1]
       IN  IF op.asset = o.cur.asset /\ op.url = o.cur.url
           THEN [o EXCEPT !.cur.fetches = @ + 1, !.cur.assetFetches = @ + 1]
           ELSE [o EXCEPT !.prev = Ending(o.cur),
                          !.cur = [NoCandidate EXCEPT
                                     !.asset = op.asset,
                                     !.url = op.url,
                                     !.fetches = 1,
                                     !.assetFetches = IF op.asset = o.cur.asset
                                                      THEN o.cur.assetFetches + 1
                                                      ELSE 1,
                                     !.retry = IF op.asset = o.cur.asset THEN o.cur.retry
                                               ELSE Some(settings.retryFailed)],
                          !.attempted[op.asset + 1] = TRUE]

\* the history after the answer to a fetch
ObserveFetched(o, op, result) ==
  IF result.ok THEN o
  ELSE [o EXCEPT !.cur.failed = @ + 1,
                 !.lastMessage[op.asset + 1] = Some(result.message)]

\* the history after the answer to a download call for path pi of npaths
ObserveCommitted(o, op, result, pi, npaths) ==
  IF result.ok
  THEN [o EXCEPT !.cur.saved = TRUE,
                 !.saved[op.asset + 1] = @ + 1,
                 !.lastMessage[op.asset + 1] = Null]
  ELSE [o EXCEPT !.lastMessage[op.asset + 1] = Some(result.message),
                 !.cur.closed = @ \/ result.kind = "failed" \/ pi >= npaths]

DownloadInit ==
  /\ ResolverOff
  /\ FunctionsOff
  /\ ClickOff
  /\ BackgroundOff
  /\ currentSettings = DEFAULT_SETTINGS
  /\ downloadMeta \in DownloadMetas
  /\ batch = NewBatch
  /\ net = {}
  /\ badge = << ".", ".", "." >>
  /\ updates = 0
  /\ obs = NewObs(Len(downloadMeta.images))
  /\ lastEvent = Event("none", NoOp, "", NewBatch)

Issued(b) == IF b.issue = Null THEN {} ELSE { b.issue[1] }

\* triggerDownloads(meta) is called and runs to its first await
StartBatch ==
  /\ batch.pc = "idle"
  /\ currentSettings' = SettingsAfterSelection(currentSettings, downloadMeta)
  /\ batch' = OnStart(downloadMeta, currentSettings')
  /\ net' = net \cup Issued(batch')
  /\ badge' = BadgeAfter(batch', downloadMeta)
  /\ obs' = ObserveStep(obs, batch', currentSettings')
  /\ lastEvent' = Event("start", NoOp, "", batch)
  /\ UNCHANGED << downloadMeta, updates, rvars, fvars, cvars, bvars >>

\* the fetch of fetchImageData is answered and the batch runs to its next await
FetchRespond ==
  \E op \in net :
    /\ op.op = "fetch"
    /\ \E response \in FetchResponses(op, << op.asset, op.url, obs.cur.fetches >>) :
         LET result == fetchImageData(op.url, response)
         IN  /\ batch' = OnFetched(batch, downloadMeta, currentSettings, result)
             /\ net' = (net \ { op }) \cup Issued(batch')
             /\ badge' = BadgeAfter(batch', downloadMeta)
             /\ obs' = ObserveStep(ObserveFetched(obs, op, result), batch', currentSettings)
             /\ lastEvent' = Event("fetch", op, IF result.ok THEN "ok" ELSE "failed", batch)
                              @@ [response |-> response]
    /\ UNCHANGED << currentSettings, downloadMeta, updates, rvars, fvars, cvars, bvars >>

\* the timer of the retry delay fires
TimerFires ==
  /\ batch.pc = "delay"
  /\ batch' = OnDelay(batch)
  /\ net' = net \cup Issued(batch')
  /\ obs' = ObserveStep(obs, batch', currentSettings)
  /\ lastEvent' = Event("timer", NoOp, "", batch)
  /\ UNCHANGED << currentSettings, downloadMeta, badge, updates, rvars, fvars, cvars, bvars >>

\* downloads.download is answered and the batch runs to its next await
CommitRespond ==
  \E op \in net :
    /\ op.op = "commit"
    /\ \E result \in SinkResults :
         /\ batch' = OnCommitted(batch, downloadMeta, currentSettings, result)
         /\ net' = (net \ { op }) \cup Issued(batch')
         /\ badge' = BadgeAfter(batch', downloadMeta)
         /\ obs' = ObserveStep(ObserveCommitted(obs, op, result, batch.pi,
                                                Len(batch.pathCandidates)),
                               batch', currentSettings)
         /\ lastEvent' = Event("commit", op, result.kind, batch)
    /\ UNCHANGED << currentSettings, downloadMeta, updates, rvars, fvars, cvars, bvars >>

\* line 896: the timer of finalizeBadge fires and clears the badge
BadgeTimerFires ==
  /\ batch.pc = "done"
  /\ badge # <<>>
  /\ badge' = <<>>
  /\ lastEvent' = Event("badgeTimer", NoOp, "", batch)
  /\ UNCHANGED << currentSettings, downloadMeta, batch, net, updates, obs, rvars, fvars, cvars, bvars >>

\* PIXIV_SETTINGS_UPDATED: updateSettings up to its first await
SettingsUpdated ==
  /\ updates < MaxSettingsUpdates
  /\ \E payload \in SettingsPayloads :
       currentSettings' = updateSettings(currentSettings, payload)
  /\ updates' = updates + 1
  /\ UNCHANGED << downloadMeta, batch, net, badge, obs, lastEvent, rvars, fvars, cvars, bvars >>

DownloadNext ==
  \/ StartBatch
  \/ FetchRespond
  \/ TimerFires
  \/ CommitRespond
  \/ BadgeTimerFires
  \/ SettingsUpdated

DownloadSpec == DownloadInit /\ [][DownloadNext]_<< rvars, dvars, fvars, cvars, bvars >>

\* The downloader when triggerDownloads is called, every fetch and every
\* downloads.download call is answered, and every timer fires; for batches
\* of up to MaxFairImages images.
MaxFairImages == 1

DownloadFairInit ==
  /\ DownloadInit
  /\ Len(downloadMeta.images) <= MaxFairImages

\* Weak fairness of the steps of the batch (StartBatch, FetchRespond,
\* TimerFires, CommitRespond), by its definition []<>~ENABLED A \/ []<>A: one
\* of them is enabled exactly while triggerDownloads has not returned, and
\* they are the steps that change batch.
BatchFairness ==
  \/ []<>(batch.pc = "done")
  \/ []<><<batch' # batch>>_<< rvars, dvars, fvars, cvars, bvars >>

DownloadFairSpec ==
  /\ DownloadFairInit
  /\ [][DownloadNext]_<< rvars, dvars, fvars, cvars, bvars >>
  /\ BatchFairness

(***************************************************************************)
(* Properties of the downloader.                                           *)
(***************************************************************************)
Images == downloadMeta.images

\* [asset.url, then the fallbacks in list order], without the empty entries
\* and the repetitions
ChainOf(image) == AddAll(<<>>, SelectSeq(<< image.url >> \o image.fallbacks, Truthy))

PositionIn(list, url) ==
  IF Contains(list, url) THEN CHOOSE k \in 1..Len(list) : list[k] = url ELSE 0

\* candidate c is the one the batch has to take after a candidate that ended as e
Follows(e, c) ==
  LET urls == ChainOf(Images[e.asset + 1])
      k == PositionIn(urls, e.url)
  IN  IF e.ended = "saved" \/ k = Len(urls)
      THEN /\ c.asset = e.asset + 1
           /\ c.asset < Len(Images)
           /\ c.url = ChainOf(Images[c.asset + 1])[1]
      ELSE /\ k > 0
           /\ c.asset = e.asset
           /\ c.url = urls[k + 1]

RECURSIVE FailedEntries(_)
\* url and last failure message of the assets from a on that were not saved
FailedEntries(a) ==
  IF a > Len(Images) THEN <<>>
  ELSE (IF obs.saved[a] = 0
        THEN << [url |-> Images[a].url,
                 error |-> IF obs.lastMessage[a] # Null THEN obs.lastMessage[a][1]
                           ELSE <<>>] >>
        ELSE <<>>) \o FailedEntries(a + 1)

\* C4: a batch is never cut short by the failure of an asset: when
\* triggerDownloads returns, a fetch was made for every asset of the batch, and
\* the list it returns has, in asset order, exactly one entry for each asset
\* that no candidate saved, made of the url of the asset and the message of the
\* last failure met for it, and no entry for a saved asset.
C4_BatchNeverAborts ==
  batch.pc = "done" =>
    /\ \A a \in 1..Len(Images) : obs.attempted[a]
    /\ batch.errors = FailedEntries(1)

\* a batch of two assets has returned: the first failed, the second was saved
C4_Witness ==
  /\ batch.pc = "done"
  /\ Len(Images) = 2
  /\ obs.saved[1] = 0
  /\ obs.saved[2] = 1
  /\ Len(batch.errors) = 1

\* C7: a batch is strictly sequential and ordered: at most one fetch or
\* download call is outstanding, and it is for the candidate fetched last; the
\* first candidate fetched is the first of asset 0; a candidate is fetched only
\* after the one before it ended (saved, download finally failed, or all its
\* fetches failed), and it is the next of the chain [url, fallbacks in order]
\* without empty and repeated entries, or, after a saved candidate or the last
\* of a chain, the first of the next asset.
C7_StrictlySequential ==
  /\ Cardinality(net) <= 1
  /\ \A op \in net : op.asset = obs.cur.asset /\ op.url = obs.cur.url
  /\ obs.cur.asset # -1 =>
       IF obs.prev.ended = "none"
       THEN obs.cur.asset = 0 /\ obs.cur.url = ChainOf(Images[1])[1]
       ELSE obs.prev.ended # "open" /\ Follows(obs.prev, obs.cur)

\* the second asset is being fetched after the first one went through its
\* chain, the repeated and the empty entries skipped, without a save
C7_Witness ==
  /\ obs.cur.asset = 1
  /\ obs.prev.asset = 0
  /\ obs.prev.url = Master(1, 0)
  /\ obs.prev.ended \in { "failed", "closed" }
  /\ Len(Images[1].fallbacks) > 1
  /\ net # {}

ClaimedMaxAttempts(retry) == IF retry = Some(FALSE) THEN 1 ELSE 4

\* C8: a candidate is fetched at most 4 times when retryFailed was not false
\* as its asset was taken and once when it was false; a fetch after the first
\* follows a failed fetch of the candidate; and with retries off each
\* candidate of the chain is fetched once, in order, until one is saved: the
\* candidate after a failed or closed one is the next of the chain, and the
\* batch returns without a save only after the last of the chain.
C8_BoundedAttempts ==
  obs.cur.asset # -1 =>
    /\ obs.cur.fetches <= ClaimedMaxAttempts(obs.cur.retry)
    /\ obs.cur.fetches <= obs.cur.failed + 1
    /\ obs.cur.retry = Some(FALSE) =>
         /\ obs.cur.fetches = 1
         /\ obs.prev.asset = obs.cur.asset =>
              obs.prev.ended \in { "failed", "closed" } /\ Follows(obs.prev, obs.cur)
         /\ obs.prev.asset # obs.cur.asset =>
              obs.cur.url = ChainOf(Images[obs.cur.asset + 1])[1]
         /\ (batch.pc = "done" /\ ~obs.cur.saved) =>
              obs.cur.url = ChainOf(Images[obs.cur.asset + 1])[
                              Len(ChainOf(Images[obs.cur.asset + 1]))]

\* with retries on a candidate was fetched four times, each fetch failed, and
\* the batch went on to the next asset
C8_Witness ==
  /\ obs.prev.ended = "failed"
  /\ obs.prev.asset = 0
  /\ obs.cur.asset = 1
  /\ obs.cur.fetches = 4
  /\ obs.cur.failed = 4
  /\ obs.cur.retry = Some(TRUE)
  /\ batch.pc = "done"

\* C9: the first download call that succeeds ends the asset: no fetch and no
\* download call is outstanding for a saved asset, and no asset is saved twice.
C9_FirstCommitEndsAsset ==
  /\ \A a \in 1..Len(Images) : obs.saved[a] <= 1
  /\ \A op \in net : obs.saved[op.asset + 1] = 0

\* the first candidate of an asset with more candidates was saved and the
\* batch is fetching the next asset
C9_Witness ==
  /\ obs.saved[1] = 1
  /\ obs.prev.ended = "saved"
  /\ obs.prev.url = Images[1].url
  /\ Len(ChainOf(Images[1])) > 1
  /\ obs.cur.asset = 1
  /\ net # {}

\* C10: after the sink rejected a path as invalid or too long and another
\* path is left, the download call outstanding is for the next path with the
\* same data URL (the same bytes) and candidate; after another failure of the
\* sink, or a rejection of the last path, no download call is outstanding, the
\* candidate is not fetched again, and if the chain has a next candidate its
\* fetch is outstanding.
C10_PathRejection ==
  /\ lastEvent.kind = "commit" =>
       LET op == lastEvent.op
           urls == ChainOf(Images[op.asset + 1])
           k == PositionIn(urls, op.url)
           final == \/ lastEvent.outcome = "failed"
                    \/ lastEvent.outcome = "rejected" /\ lastEvent.pi >= lastEvent.npaths
       IN  /\ (lastEvent.outcome = "rejected" /\ lastEvent.pi < lastEvent.npaths) =>
                /\ net = { [op EXCEPT !.filename = batch.pathCandidates[lastEvent.pi + 1]] }
                /\ batch.pathCandidates[lastEvent.pi + 1] # op.filename
           /\ final =>
                /\ \A o \in net : o.op = "fetch" /\ << o.asset, o.url >> # << op.asset, op.url >>
                /\ k < Len(urls) =>
                     net = { [NoOp EXCEPT !.op = "fetch", !.asset = op.asset,
                                          !.url = urls[k + 1]] }
  /\ obs.cur.closed =>
       \A o \in net : << o.asset, o.url >> # << obs.cur.asset, obs.cur.url >>

\* the sink rejected the second path of a candidate and the third is tried
C10_Witness ==
  /\ lastEvent.kind = "commit"
  /\ lastEvent.outcome = "rejected"
  /\ lastEvent.pi = 2
  /\ \E o \in net : o.op = "commit" /\ o.filename = batch.pathCandidates[3]

(***************************************************************************)
(* Properties of the resolver: the remote path.                            *)
(***************************************************************************)
\* the result a finished call on a resolution must have got
ResultOf(r) == IF r.state = "fulfilled" THEN r.value ELSE Failure(r.value.error)

C12_EmbeddedFailureFallsThrough ==
  \A p \in 1..Len(promises) :
    LET r == promises[p] IN
      ~EmbeddedNormalizes(r.illustId) =>
        /\ Len(r.log) >= 2
        /\ r.log[2] = "illust"
        /\ ~r.embedded
        /\ r.value.error \notin { "errorMissingPreload", "errorParsePreload" }
        /\ \A c \in 1..Len(calls) :
             (calls[c].promise = p /\ calls[c].pc = "done")
             => calls[c].result = Some(ResultOf(r))

\* the embedded element was absent or unparsable and the call succeeded
\* through the remote API
C12_Witness ==
  \E c \in 1..Len(calls) :
    /\ preload.kind \in { "absent", "badjson" }
    /\ calls[c].via = "start" /\ calls[c].pc = "done"
    /\ promises[calls[c].promise].log = << "parse", "illust" >>
    /\ calls[c].result[1].success

(***************************************************************************)
(* Background script: the selection filter.                                *)
(***************************************************************************)

\* Math.min(total, Math.max(start, value)) of line 721, without the lower clamp
RangeEndUnclamped(total, start, value) == Min(total, value)

\* Math.min(total, Math.max(start, value)) of line 721
RangeEnd(total, start, value) == Min(total, Max(start, value))

\* selection: Null or Some([mode, start, end]); start and end: Null or
\* Some(an integer).
applyRangeSelection(images, selection) ==
  IF images = <<>> THEN <<>>
  ELSE IF selection = Null \/ selection[1].mode # "range" THEN images
  ELSE LET total == Len(images)
           start == Min(total, Max(1, NumberOr(selection[1].start, 1)))
           end == RangeEnd(total, start, NumberOr(selection[1].end, total))
       IN  Slice(images, start - 1, end)

\* getStoredRangeBounds(total), the same in both scripts
getStoredRangeBounds(settings, total) ==
  LET start == Min(total, Max(1, NumberOr(Some(settings.customRangeStart), 1)))
      end == Min(total, Max(start, NumberOr(Some(settings.customRangeEnd), total)))
  IN  [start |-> start, end |-> end]

\* the selection of either handler when it does not prompt
SelectionFromSettings(settings, total) ==
  IF total > 1 /\ settings.range = "custom"
  THEN LET range == getStoredRangeBounds(settings, total)
       IN  SelectRange(range.start, range.end)
  ELSE SelectAll

\* Mutant of applySelection: a missing or zero end is not replaced by total.
applySelectionEndNotDefaulted(images, selection) ==
  IF selection.mode # "range" THEN images
  ELSE LET total == Len(images)
           startIndex == Max(0, Min(total - 1, NumberOr(selection.start, 1) - 1))
           endIndex == Max(startIndex, Min(total - 1, NumberOr(selection.end, 0) - 1))
       IN  Slice(images, startIndex, endIndex + 1)

\* applySelection of the content script, lines 950-959, for a selection that
\* is an object
applySelection(images, selection) ==
  IF selection.mode # "range" THEN images
  ELSE LET total == Len(images)
           startIndex == Max(0, Min(total - 1, NumberOr(selection.start, 1) - 1))
           endIndex == Max(startIndex, Min(total - 1, NumberOr(selection.end, total) - 1))
       IN  Slice(images, startIndex, endIndex + 1)

(***************************************************************************)
(* The pure functions, each called once on an input of a bounded set.      *)
(***************************************************************************)
MaxRangeLen == 3

\* the bounds a selection can carry: below 1, within the list, above it
RangeInts == (0 - 1)..(MaxRangeLen + 2)

RangeBounds == { Null } \cup { Some(i) : i \in RangeInts }

Selections ==
  { Null, Some(SelectAll) }
  \cup { Some([mode |-> "range", start |-> a, end |-> b]) : a \in RangeBounds, b \in RangeBounds }

RangeCalls ==
  { [fn |-> "applyRangeSelection", images |-> [k \in 1..n |-> PlainImage(k - 1)],
     selection |-> sel] : n \in 0..MaxRangeLen, sel \in Selections }

\* the calls that hand one list and one selection to the filter of the content
\* script and to the filter of the background script
BothFilterCalls ==
  { [fn |-> "applySelection", images |-> [k \in 1..n |-> PlainImage(k - 1)],
     selection |-> sel] : n \in 0..MaxRangeLen, sel \in Selections \ { Null } }

MaxExtras == 4

\* a reduced-size url of a page, as urls.small
Small(id, k) == Url("c/540x540_70/img-master", id, k, "_master1200", "jpg")

\* the primary of a call: an original url of a png, a jpg or a JPG, an
\* original url without a page part, or a master url; the extras: an empty
\* entry, the primary url of a png, its two master urls and a reduced-size url
FallbackCalls ==
  { [fn |-> "buildFallbackList", primary |-> primary, extras |-> extras] :
      primary \in { Original(1, 0, "png"), Original(1, 0, "jpg"), Original(1, 0, "JPG"),
                    Original(1, -1, "png"), Master(1, 0) },
      extras \in UNION { [1..n -> { NoUrl, Original(1, 0, "png"), Master(1, 0),
                                    [Master(1, 0) EXCEPT !.ext = "png"], Small(1, 0) }] :
                         n \in 0..MaxExtras } }

MaxItems == 3

\* The items of a call of dedupeUrls: item k has page k - 1 and its own
\* variant; its url is one of two pages or empty; its fallbacks hold nothing,
\* its own url, an empty and a repeated entry, or the url of the other page.
DedupeCalls ==
  { [fn |-> "dedupeUrls",
     items |-> [k \in 1..Len(shape) |->
                  [url |-> shape[k][1], page |-> k - 1,
                   variant |-> IF k = 1 THEN "original" ELSE "page",
                   fallbacks |-> shape[k][2]]]] :
      shape \in UNION { [1..n -> { Original(1, 0, "png"), Original(1, 1, "png"), NoUrl }
                                 \X { <<>>, << Original(1, 0, "png") >>,
                                      << Master(1, 0), NoUrl, Master(1, 0) >>,
                                      << Original(1, 1, "png"), Small(1, 0) >> }] :
                        n \in 0..MaxItems } }

\* Records of illust 1 as the page embeds them: data.illust, data.illustManga
\* and data.ugoira each with or without an entry.
IllustEntries ==
  { <<>> } \cup
  { (1 :> [title |-> << "T" >>, userName |-> << "U" >>, urls |-> urls, pageCount |-> pageCount]) :
      urls \in { UrlsOf(1, "png"), UrlsOf(1, "jpg"), NoUrls, [NoUrls EXCEPT !.regular = Master(1, 0)] },
      pageCount \in 1..2 }

MangaPageLists ==
  { <<>>,
    << PageOf(1, 0) >>,
    << PageOf(1, 0), PageOf(1, 1) >>,
    << [urls |-> [PageOf(1, 0).urls EXCEPT !.original = NoUrl]], PageOf(1, 0) >>,
    << [urls |-> [original |-> NoUrl, regular |-> NoUrl, small |-> NoUrl, thumb |-> NoUrl]] >> }

MangaEntries ==
  { <<>> } \cup
  { (1 :> [title |-> <<>>, userName |-> << "U" >>, pages |-> pages]) : pages \in MangaPageLists }

UgoiraEntries ==
  { <<>>, (1 :> [originalSrc |-> UgoiraZip(1)]), (1 :> [originalSrc |-> NoUrl]) }

UgoiraMetas ==
  { Null, Some(NoUgoiraMeta), Some([NoUgoiraMeta EXCEPT !.originalSrc = UgoiraZip(1)]),
    Some([NoUgoiraMeta EXCEPT !.src = UgoiraZip(1)]) }

\* A normalization of illust 1 or 2 from what the page embeds for illust 1,
\* or from the answers of the remote API for illust 1.
NormalizeCalls ==
  { [fn |-> "collectIllustImages", source |-> "embedded", illustId |-> id,
     data |-> [illust |-> i, illustManga |-> m, ugoira |-> u]] :
      id \in Ids, i \in IllustEntries, m \in MangaEntries, u \in UgoiraEntries }
  \cup
  UNION {
    { [fn |-> "collectIllustImages", source |-> "remote", illustId |-> 1,
       body |-> BodyOf(1, type, urls, pages, pageCount), ugoiraMeta |-> meta] :
        urls \in { UrlsOf(1, "jpg"), UrlsOf(1, "png"), NoUrls },
        pages \in MangaPageLists, pageCount \in 0..2,
        \* ugoira_meta is asked for illustType 2 alone
        meta \in IF type = 2 THEN UgoiraMetas ELSE { Null } } :
    type \in { 0, 2 } }

MaxSegmentLen == 6

\* The segments of a call of sanitizeSegment: the texts of up to MaxSegmentLen
\* characters of a letter, a dot, a space and a solidus; reserved device names
\* in either case, plain or followed by dots and spaces; a compatibility
\* character; texts longer than the limit of a segment.
SegmentTexts ==
  UNION { [1..n -> { "a", ".", " ", "/" }] : n \in 0..MaxSegmentLen }
  \cup { << "C", "O", "N" >>, << "c", "o", "n" >>, << "L", "p", "t", "1" >>,
         << "C", "O", "N", "." >>, << "n", "u", "l", " ", ".", " ", "." >>,
         << "a", "U+FF0F", "b" >>,
         Repeat("a", SegmentLimit + 5),
         Repeat("a", SegmentLimit - 1) \o << ".", "b" >>,
         Repeat("a", SegmentLimit - 2) \o << ".", " ", ".", "b" >> }

SegmentCalls ==
  { [fn |-> "sanitizeSegment", segment |-> segment, fallback |-> fallback] :
      segment \in SegmentTexts,
      fallback \in { PixivText, << "c", "o", "n" >>, << "1", "." >> } }

\* Calls of buildDownloadPathCandidates for two assets of one artwork whose
\* page indices differ: the id, the title, the author and the root folder
\* short or longer than the limits, the extension short or long.
PathCalls ==
  { [fn |-> "buildDownloadPathCandidates",
     meta |-> [illustId |-> illustId, title |-> title, author |-> author],
     pages |-> pages, ext |-> ext,
     settings |-> [DEFAULT_SETTINGS EXCEPT !.rootFolder = rootFolder,
                                           !.antiTheft = antiTheft]] :
      illustId \in { DigitsOf(1), Repeat("1", 20), Repeat("1", PathLimit) },
      title \in { << "t" >>, Repeat("t", SegmentLimit + 20), << "a", ".", " ", ".", " ", "." >> },
      author \in { << "a" >>, Repeat("a", SegmentLimit + 20) },
      pages \in { << 0, 1 >>, << 1, 10 >>, << 10, 100 >> },
      ext \in { "png", "long", "huge" },
      rootFolder \in { PixivText, Repeat("r", PathLimit - 40) },
      antiTheft \in BOOLEAN }

\* A batch started with a range on a list of total images, under settings
\* with any range mode and an earlier custom range; the bounds of the range
\* lie within the list, beyond it, or at the largest number the settings keep.
RangeStartCalls ==
  { c \in [fn : { "triggerDownloads" },
           total : 1..MaxRangeLen,
           start : (1..(MaxRangeLen + 1)) \cup { RangeMax - 1, RangeMax },
           end : (1..(MaxRangeLen + 1)) \cup { RangeMax - 1, RangeMax },
           settings : { [DEFAULT_SETTINGS EXCEPT !.range = range,
                                                 !.customRangeStart = a,
                                                 !.customRangeEnd = a] :
                          range \in { "all", "prompt", "custom" }, a \in { 1, MaxRangeLen } }] :
      c.start <= c.end }

FunctionsInit ==
  /\ ResolverOff
  /\ DownloaderOff
  /\ ClickOff
  /\ BackgroundOff
  /\ fnCall \in RangeCalls \cup FallbackCalls \cup DedupeCalls \cup NormalizeCalls
                \cup SegmentCalls \cup PathCalls \cup RangeStartCalls
                \cup BothFilterCalls
  /\ fnResult = Null

CallApplyRangeSelection ==
  /\ fnResult = Null
  /\ fnCall.fn = "applyRangeSelection"
  /\ fnResult' = Some(applyRangeSelection(fnCall.images, fnCall.selection))
  /\ UNCHANGED << fnCall, rvars, dvars, cvars, bvars >>

\* one list and one selection through applySelection (content script) and
\* through applyRangeSelection (background script)
CallBothFilters ==
  /\ fnResult = Null
  /\ fnCall.fn = "applySelection"
  /\ fnResult' = Some([content |-> applySelection(fnCall.images, fnCall.selection[1]),
                        background |-> applyRangeSelection(fnCall.images, fnCall.selection)])
  /\ UNCHANGED << fnCall, rvars, dvars, cvars, bvars >>

CallBuildFallbackList ==
  /\ fnResult = Null
  /\ fnCall.fn = "buildFallbackList"
  /\ fnResult' = Some(buildFallbackList(fnCall.primary, fnCall.extras))
  /\ UNCHANGED << fnCall, rvars, dvars, cvars, bvars >>

CallDedupeUrls ==
  /\ fnResult = Null
  /\ fnCall.fn = "dedupeUrls"
  /\ fnResult' = Some(dedupeUrls(fnCall.items))
  /\ UNCHANGED << fnCall, rvars, dvars, cvars, bvars >>

\* dedupeUrls is called on what it returned; fnResult keeps both results
CallDedupeUrlsAgain ==
  /\ Len(fnResult) = 1
  /\ fnCall.fn = "dedupeUrls"
  /\ fnResult' = Append(fnResult, dedupeUrls(fnResult[1]))
  /\ UNCHANGED << fnCall, rvars, dvars, cvars, bvars >>

\* the data of a normalization: what the page embeds, or what
\* buildResultFromAjax converts the answers of the remote API to
DataOf(call) ==
  IF call.source = "embedded" THEN call.data
  ELSE convertAjaxToPreload(call.illustId, call.body, call.ugoiraMeta)

CallCollectIllustImages ==
  /\ fnResult = Null
  /\ fnCall.fn = "collectIllustImages"
  /\ fnResult' = Some(collectIllustImages(fnCall.illustId, DataOf(fnCall)))
  /\ UNCHANGED << fnCall, rvars, dvars, cvars, bvars >>

CallSanitizeSegment ==
  /\ fnResult = Null
  /\ fnCall.fn = "sanitizeSegment"
  /\ fnResult' = Some(sanitizeSegment(fnCall.segment, fnCall.fallback))
  /\ UNCHANGED << fnCall, rvars, dvars, cvars, bvars >>

\* buildDownloadPathCandidates is called for the asset of each of the two
\* pages, with no redirect of the fetch and the same Date.now()
CallBuildDownloadPathCandidates ==
  /\ fnResult = Null
  /\ fnCall.fn = "buildDownloadPathCandidates"
  /\ fnResult' = Some([k \in 1..2 |->
                         buildDownloadPathCandidates(
                           fnCall.meta,
                           [url |-> Original(1, fnCall.pages[k], fnCall.ext),
                            page |-> fnCall.pages[k]],
                           fnCall.pages[k], NoUrl, fnCall.settings)])
  /\ UNCHANGED << fnCall, rvars, dvars, cvars, bvars >>

\* triggerDownloads is called with a range selection (lines 788-798); then
\* the toolbar button is used in "custom" mode on a list of the same length
\* (resolveSelectionForToolbar, lines 774-780)
CallTriggerDownloadsThenCustom ==
  /\ fnResult = Null
  /\ fnCall.fn = "triggerDownloads"
  /\ LET images == [k \in 1..fnCall.total |-> PlainImage(k - 1)]
         selection == SelectRange(fnCall.start, fnCall.end)
         started == applyRangeSelection(images, Some(selection))
         m == [tabId |-> 1, illustId |-> DigitsOf(1), title |-> << "t" >>,
               author |-> << "a" >>, images |-> started, selection |-> selection]
         after == SettingsAfterSelection(fnCall.settings, m)
         later == SelectionFromSettings([after EXCEPT !.range = "custom"], fnCall.total)
     IN  fnResult' = Some([settings |-> after,
                           started |-> started,
                           later |-> IF later.mode = "range"
                                     THEN applyRangeSelection(images, Some(later))
                                     ELSE images])
  /\ UNCHANGED << fnCall, rvars, dvars, cvars, bvars >>

FunctionsNext ==
  \/ CallTriggerDownloadsThenCustom
  \/ CallSanitizeSegment
  \/ CallBuildDownloadPathCandidates
  \/ CallApplyRangeSelection
  \/ CallBothFilters
  \/ CallBuildFallbackList
  \/ CallDedupeUrls
  \/ CallDedupeUrlsAgain
  \/ CallCollectIllustImages

FunctionsSpec == FunctionsInit /\ [][FunctionsNext]_<< rvars, dvars, fvars, cvars, bvars >>

(***************************************************************************)
(* Properties of the selection filter.                                     *)
(***************************************************************************)
\* a call of applyRangeSelection on a list that is not empty, in range mode,
\* has returned
RangeReturned ==
  /\ fnCall.fn = "applyRangeSelection"
  /\ fnResult # Null
  /\ fnCall.images # <<>>
  /\ fnCall.selection # Null
  /\ fnCall.selection[1].mode = "range"

\* C13: for a list of n >= 1 assets and integers start and end, 0, negative
\* and above n included, applyRangeSelection in range mode returns the assets
\* at the positions s..e, in order, where s = min(n, max(1, start)) and
\* e = min(n, max(s, end)).
C13_RangeIsClampedSlice ==
  (RangeReturned /\ fnCall.selection[1].start # Null /\ fnCall.selection[1].end # Null) =>
    LET n == Len(fnCall.images)
        s == Min(n, Max(1, fnCall.selection[1].start[1]))
        e == Min(n, Max(s, fnCall.selection[1].end[1]))
    IN  fnResult[1] = SubSeq(fnCall.images, s, e)

\* C14: with 1 <= end < start the filter returns the one asset at position
\* min(start, n); and whatever the selection, the filter returns at least one
\* asset of a list that is not empty.
C14_EndClampedUpToStart ==
  /\ (RangeReturned /\ fnCall.selection[1].start # Null /\ fnCall.selection[1].end # Null
        /\ 1 <= fnCall.selection[1].end[1]
        /\ fnCall.selection[1].end[1] < fnCall.selection[1].start[1]) =>
       fnResult[1] = << fnCall.images[Min(fnCall.selection[1].start[1], Len(fnCall.images))] >>
  /\ (fnCall.fn = "applyRangeSelection" /\ fnResult # Null /\ fnCall.images # <<>>) =>
       /\ fnResult[1] # <<>>
       /\ \A i \in 1..Len(fnResult[1]) : Contains(fnCall.images, fnResult[1][i])

\* start 3, end 2 on a list of three assets gave the third asset alone
C14_Witness ==
  /\ RangeReturned
  /\ Len(fnCall.images) = 3
  /\ fnCall.selection[1].start = Some(3)
  /\ fnCall.selection[1].end = Some(2)
  /\ fnResult = Some(<< fnCall.images[3] >>)

(***************************************************************************)
(* Properties of the fallback chains.                                      *)
(***************************************************************************)
FirstIndex(list, x) == CHOOSE i \in 1..Len(list) : list[i] = x /\ \A j \in 1..(i - 1) : list[j] # x

\* what buildFallbackList must give whatever the order of the derived
\* candidates: no primary, no empty entry, no duplicate, every usable extra,
\* nothing but extras and derived candidates, the extras in the order of their
\* first occurrence
FallbackListSound(primary, extras, result) ==
  LET derived == buildMasterCandidates(primary) IN
  /\ \A i \in 1..Len(result) :
       /\ result[i] # primary
       /\ Truthy(result[i])
       /\ Contains(extras, result[i]) \/ Contains(derived, result[i])
       /\ \A j \in 1..Len(result) : result[j] = result[i] => j = i
  /\ \A k \in 1..Len(extras) :
       (Truthy(extras[k]) /\ extras[k] # primary) => Contains(result, extras[k])
  /\ \A k \in 1..Len(derived) : derived[k] # primary => Contains(result, derived[k])
  /\ \A i, j \in 1..Len(result) :
       (Contains(extras, result[i]) /\ Contains(extras, result[j]) /\ i < j)
         => FirstIndex(extras, result[i]) < FirstIndex(extras, result[j])

\* C16, as claimed: the list returned is sound and every derived (img-master)
\* candidate in it stands after all the extras in it.
C16_DerivedAfterAllExtras ==
  (fnCall.fn = "buildFallbackList" /\ fnResult # Null) =>
    /\ FallbackListSound(fnCall.primary, fnCall.extras, fnResult[1])
    /\ \A i, j \in 1..Len(fnResult[1]) :
         (Contains(buildMasterCandidates(fnCall.primary), fnResult[1][i])
            /\ Contains(fnCall.extras, fnResult[1][j]) /\ i # j) => j < i

\* C16, amended: the list returned is sound and every derived candidate that
\* is not itself one of the extras stands after all the extras; a derived
\* candidate that is also an extra stands where the extras put it.
C16_NewDerivedAfterAllExtras ==
  (fnCall.fn = "buildFallbackList" /\ fnResult # Null) =>
    /\ FallbackListSound(fnCall.primary, fnCall.extras, fnResult[1])
    /\ \A i, j \in 1..Len(fnResult[1]) :
         (Contains(buildMasterCandidates(fnCall.primary), fnResult[1][i])
            /\ ~Contains(fnCall.extras, fnResult[1][i])
            /\ Contains(fnCall.extras, fnResult[1][j])) => j < i

\* extras with a repeated entry, an empty entry, the primary and one of the
\* two derived candidates gave that candidate, the reduced-size url and then
\* the other derived candidate
C16_Witness ==
  /\ fnCall.fn = "buildFallbackList"
  /\ fnCall.primary = Original(1, 0, "png")
  /\ fnCall.extras = << Master(1, 0), NoUrl, Original(1, 0, "png"), Small(1, 0) >>
  /\ fnResult = Some(<< Master(1, 0), Small(1, 0), [Master(1, 0) EXCEPT !.ext = "png"] >>)

(***************************************************************************)
(* Properties of the deduplication.                                        *)
(***************************************************************************)
\* r lists, once each and in the order of their first occurrence in list, the
\* entries of list that are not empty and not in exclude
IsFirstOccurrences(r, list, exclude) ==
  /\ \A i \in 1..Len(r) : Truthy(r[i]) /\ r[i] \notin exclude /\ Contains(list, r[i])
  /\ \A k \in 1..Len(list) :
       (Truthy(list[k]) /\ list[k] \notin exclude) => Contains(r, list[k])
  /\ \A i, j \in 1..Len(r) : i < j => FirstIndex(list, r[i]) < FirstIndex(list, r[j])

\* the fallback lists of the items of url u, one after the other
RECURSIVE FallbacksSeen(_, _)
FallbacksSeen(items, u) ==
  IF items = <<>> THEN <<>>
  ELSE (IF Head(items).url = u THEN Head(items).fallbacks ELSE <<>>)
         \o FallbacksSeen(Tail(items), u)

\* the records returned are one per url, in the order of first occurrence,
\* with the page and the variant of the first record of the url, and the
\* fallbacks of a record are the union of the fallback lists of its url less
\* the entries that Excluded gives for the url
DedupeIsUnion(items, out, Excluded(_)) ==
  LET urls == [k \in 1..Len(items) |-> items[k].url]
      outUrls == [k \in 1..Len(out) |-> out[k].url]
  IN  /\ IsFirstOccurrences(outUrls, urls, {})
      /\ \A k \in 1..Len(out) :
           LET first == items[FirstIndex(urls, out[k].url)] IN
           /\ out[k].page = first.page
           /\ out[k].variant = first.variant
           /\ IsFirstOccurrences(out[k].fallbacks, FallbacksSeen(items, out[k].url),
                                 Excluded(out[k].url))

OwnUrl(u) == { u }

\* C17: dedupeUrls returns one record per distinct url, in order of first
\* occurrence, with the first record's page and variant; its fallbacks are the
\* union of the fallback lists seen for the url, in order of first
\* observation, without duplicates and without the record's own url.
C17_DedupeUnionWithoutOwnUrl ==
  (fnCall.fn = "dedupeUrls" /\ fnResult # Null) =>
    DedupeIsUnion(fnCall.items, fnResult[1], OwnUrl)

\* C18: dedupeUrls applied to what dedupeUrls returned returns the same list:
\* the same records, in the same order, with the same fallback lists.
C18_DedupeIdempotent ==
  (fnCall.fn = "dedupeUrls" /\ Len(fnResult) = 2) => fnResult[2] = fnResult[1]

\* three items of two urls, two of them merged into a record with more than
\* one fallback, went through dedupeUrls twice
C18_Witness ==
  /\ fnCall.fn = "dedupeUrls"
  /\ Len(fnResult) = 2
  /\ Len(fnCall.items) = 3
  /\ fnCall.items[1].url = fnCall.items[3].url
  /\ fnCall.items[1].fallbacks # fnCall.items[3].fallbacks
  /\ Len(fnResult[1]) = 2
  /\ Len(fnResult[2][1].fallbacks) > Len(fnCall.items[1].fallbacks)

(***************************************************************************)
(* Properties of the normalization.                                        *)
(***************************************************************************)
\* the data hold no url that an asset can be made of for illustId: no
\* urls.original of the illust record, no original or regular url of a manga
\* page, no originalSrc of the ugoira record
NoUsableUrl(illustId, data) ==
  /\ illustId \in DOMAIN data.illust => ~Truthy(data.illust[illustId].urls.original)
  /\ illustId \in DOMAIN data.illustManga =>
       \A k \in 1..Len(data.illustManga[illustId].pages) :
         /\ ~Truthy(data.illustManga[illustId].pages[k].urls.original)
         /\ ~Truthy(data.illustManga[illustId].pages[k].urls.regular)
  /\ illustId \in DOMAIN data.ugoira => ~Truthy(data.ugoira[illustId].originalSrc)

\* C19: a successful normalization, of embedded or of remote data, has a list
\* of assets that is not empty, with pairwise distinct urls and no url among
\* its own fallbacks; data with no record or no usable url for the id give a
\* failure.
C19_SuccessHasDistinctAssets ==
  (fnCall.fn = "collectIllustImages" /\ fnResult # Null) =>
    LET result == fnResult[1] IN
    /\ result.success =>
         /\ result.images # <<>>
         /\ \A i, j \in 1..Len(result.images) :
              result.images[i].url = result.images[j].url => i = j
         /\ \A i \in 1..Len(result.images) :
              /\ Truthy(result.images[i].url)
              /\ ~Contains(result.images[i].fallbacks, result.images[i].url)
    /\ NoUsableUrl(fnCall.illustId, DataOf(fnCall)) => ~result.success /\ result.images = <<>>
    /\ ~NoUsableUrl(fnCall.illustId, DataOf(fnCall)) => result.success

\* an illust record and two manga pages, one of them without an original url
\* and the other with the url of the illust record, gave two assets
C19_Witness ==
  /\ fnCall.fn = "collectIllustImages"
  /\ fnResult # Null
  /\ fnCall.source = "embedded"
  /\ fnCall.illustId \in DOMAIN fnCall.data.illust
  /\ fnCall.illustId \in DOMAIN fnCall.data.illustManga
  /\ Len(fnCall.data.illustManga[fnCall.illustId].pages) = 2
  /\ ~Truthy(fnCall.data.illustManga[fnCall.illustId].pages[1].urls.original)
  /\ fnResult[1].success
  /\ Len(fnResult[1].images) = 2
  /\ fnResult[1].images[1].variant = "original"
  /\ fnResult[1].images[2].url = Master(1, 0)

\* C20: a subject with an animation archive normalizes to one asset, of
\* variant "ugoira", whose url is the archive; also from the remote API,
\* whose illust record has its own urls.original.
C20_UgoiraSingleAsset ==
  (/\ fnCall.fn = "collectIllustImages"
   /\ fnResult # Null
   /\ fnCall.illustId \in DOMAIN DataOf(fnCall).ugoira
   /\ Truthy(DataOf(fnCall).ugoira[fnCall.illustId].originalSrc)) =>
    /\ fnResult[1].success
    /\ Len(fnResult[1].images) = 1
    /\ fnResult[1].images[1].variant = "ugoira"
    /\ fnResult[1].images[1].url = DataOf(fnCall).ugoira[fnCall.illustId].originalSrc

(***************************************************************************)
(* A click on the toolbar button (handleAction, background script) or on   *)
(* the overlay button (handleOverlayClick, content script), from the       *)
(* moment the media of the page are resolved.  The content script's        *)
(* extensionSettings mirror currentSettings.                               *)
(***************************************************************************)

\* What the prompt exchange can give for a list of total assets: the exchange
\* throws, no response, the dialog was cancelled, the dialog failed, or a
\* selection, which the dialog clamps into 1..total with start <= end.
PromptResponses(total) ==
  { [kind |-> k, success |-> FALSE, selection |-> Null] :
      k \in { "threw", "none", "cancelled", "error" } }
  \cup { [kind |-> "selected", success |-> TRUE, selection |-> Some(SelectAll)] }
  \cup { [kind |-> "selected", success |-> TRUE, selection |-> Some(SelectRange(se[1], se[2]))] :
           se \in { x \in (1..total) \X (1..total) : x[1] <= x[2] } }

\* the test of line 752 with a response that tells of a cancelled dialog only
PromptCancelledOnlyFlag(response) == response.kind \in { "threw", "none", "cancelled" }

\* resolveSelectionForToolbar: !response || !response.success, and the catch
\* of lines 768-771
PromptCancelled(response) == response.kind \in { "threw", "none" } \/ ~response.success

\* resolveSelectionForToolbar after the answer of the prompt
SelectionFromPrompt(settings, images, response) ==
  LET total == Len(images) IN
  IF PromptCancelled(response)
  THEN [cancelled |-> TRUE, selection |-> SelectAll, images |-> <<>>]
  ELSE IF response.selection # Null /\ response.selection[1].mode = "range"
  THEN LET range == getStoredRangeBounds(settings, total)
           start == Min(total, Max(1, NumberOr(response.selection[1].start, range.start)))
           end == Min(total, Max(start, NumberOr(response.selection[1].end, range.end)))
       IN  [cancelled |-> FALSE, selection |-> SelectRange(start, end),
            images |-> applyRangeSelection(images, Some(SelectRange(start, end)))]
  ELSE [cancelled |-> FALSE, selection |-> SelectAll, images |-> images]

MetaOf(images, selection) ==
  [tabId |-> 1, illustId |-> DigitsOf(1), title |-> << "t" >>, author |-> << "a" >>,
   images |-> images, selection |-> selection]

\* triggerDownloads(m) is called and runs to its first await
TriggerDownloads(m) ==
  /\ currentSettings' = SettingsAfterSelection(currentSettings, m)
  /\ downloadMeta' = m
  /\ batch' = OnStart(m, currentSettings')
  /\ net' = net \cup Issued(batch')
  /\ badge' = BadgeAfter(batch', m)
  /\ obs' = ObserveStep(NewObs(Len(m.images)), batch', currentSettings')
  /\ lastEvent' = Event("start", NoOp, "", batch)

\* the handler ends without a call of triggerDownloads
NoDownload(text) ==
  /\ badge' = text
  /\ UNCHANGED << currentSettings, downloadMeta, batch, net, obs, lastEvent >>

ClickInit ==
  /\ ResolverOff
  /\ FunctionsOff
  /\ BackgroundOff
  /\ click \in { [path |-> path, pc |-> "clicked", shiftKey |-> shiftKey,
                  images |-> [k \in 1..n |-> PlainImage(k - 1)],
                  prompt |-> "",        \* history: how the prompt ended
                  payload |-> Null] :
                   path \in { "toolbar", "overlay" }, shiftKey \in BOOLEAN,
                   n \in 1..MaxImages }
  /\ click.path = "toolbar" => ~click.shiftKey
  /\ currentSettings \in { [DEFAULT_SETTINGS EXCEPT !.range = range,
                                                    !.customRangeStart = start,
                                                    !.customRangeEnd = start] :
                             range \in { "all", "prompt", "custom" }, start \in 1..MaxImages }
  /\ downloadMeta = <<>>
  /\ batch = NewBatch
  /\ net = {}
  /\ badge = <<>>
  /\ updates = 0
  /\ obs = NewObs(0)
  /\ lastEvent = Event("none", NoOp, "", NewBatch)

\* handleAction from the answer of the tab to the prompt, or to the first
\* fetch of triggerDownloads
ToolbarClicked ==
  /\ click.path = "toolbar"
  /\ click.pc = "clicked"
  /\ IF Len(click.images) > 1 /\ currentSettings.range = "prompt"
     THEN /\ click' = [click EXCEPT !.pc = "prompting"]
          /\ NoDownload(<< ".", ".", "." >>)
     ELSE LET selection == SelectionFromSettings(currentSettings, Len(click.images))
              images == IF selection.mode = "range"
                        THEN applyRangeSelection(click.images, Some(selection))
                        ELSE click.images
          IN  /\ click' = [click EXCEPT !.pc = "downloading"]
              /\ TriggerDownloads(MetaOf(images, selection))
  /\ UNCHANGED << updates, rvars, fvars, bvars >>

\* tabsSendMessage(PIXIV_PROMPT_SELECTION) is answered: the rest of
\* resolveSelectionForToolbar and of handleAction up to the first fetch
ToolbarPromptAnswered ==
  /\ click.path = "toolbar"
  /\ click.pc = "prompting"
  /\ \E response \in PromptResponses(Len(click.images)) :
       LET selectionResult == SelectionFromPrompt(currentSettings, click.images, response)
       IN  IF selectionResult.cancelled
           THEN /\ click' = [click EXCEPT !.pc = "done", !.prompt = response.kind]
                /\ NoDownload(<<>>)
           ELSE IF selectionResult.images = <<>>
           THEN /\ click' = [click EXCEPT !.pc = "done", !.prompt = response.kind]
                /\ NoDownload(<< "0" >>)
           ELSE /\ click' = [click EXCEPT !.pc = "downloading", !.prompt = response.kind]
                /\ TriggerDownloads(MetaOf(selectionResult.images, selectionResult.selection))
  /\ UNCHANGED << updates, rvars, fvars, bvars >>

\* the rest of handleOverlayClick once selection is known
SendSelection(selection, kind) ==
  LET filteredImages == applySelection(click.images, selection)
  IN  click' = IF filteredImages = <<>>
               THEN [click EXCEPT !.pc = "done", !.prompt = kind]
               ELSE [click EXCEPT !.pc = "sent", !.prompt = kind,
                                  !.payload = Some(MetaOf(filteredImages, selection))]

\* handleOverlayClick from the result of collectPixivMedia to the dialog, or
\* to the message PIXIV_DOWNLOAD_SELECTION
OverlayClicked ==
  /\ click.path = "overlay"
  /\ click.pc = "clicked"
  /\ IF Len(click.images) > 1 /\ (click.shiftKey \/ currentSettings.range = "prompt")
     THEN click' = [click EXCEPT !.pc = "prompting"]
     ELSE SendSelection(SelectionFromSettings(currentSettings, Len(click.images)), "")
  /\ UNCHANGED << dvars, rvars, fvars, bvars >>

\* promptSelection settles: null when the dialog was cancelled
OverlayDialogClosed ==
  /\ click.path = "overlay"
  /\ click.pc = "prompting"
  /\ \E result \in { r \in PromptResponses(Len(click.images)) :
                       r.kind \in { "threw", "cancelled", "selected" } } :
       IF result.kind = "threw" \/ result.selection = Null
       THEN click' = [click EXCEPT !.pc = "done", !.prompt = result.kind]
       ELSE SendSelection(result.selection[1], result.kind)
  /\ UNCHANGED << dvars, rvars, fvars, bvars >>

\* the background script receives PIXIV_DOWNLOAD_SELECTION
DownloadSelectionReceived ==
  /\ click.pc = "sent"
  /\ click' = [click EXCEPT !.pc = "downloading", !.payload = Null]
  /\ TriggerDownloads(click.payload[1])
  /\ UNCHANGED << updates, rvars, fvars, bvars >>

ClickNext ==
  \/ ToolbarClicked
  \/ ToolbarPromptAnswered
  \/ OverlayClicked
  \/ OverlayDialogClosed
  \/ DownloadSelectionReceived
  \/ FetchRespond
  \/ TimerFires
  \/ CommitRespond
  \/ BadgeTimerFires

ClickSpec == ClickInit /\ [][ClickNext]_<< rvars, dvars, fvars, cvars, bvars >>

(***************************************************************************)
(* Properties of the click.                                                *)
(***************************************************************************)
\* the prompt was cancelled or the exchange of the prompt failed
PromptAbandoned == click.prompt \in { "threw", "none", "cancelled", "error" }

\* C15: when the prompt of a click is cancelled or its exchange fails, the
\* click makes no call of triggerDownloads: no fetch of an asset and no
\* download call is ever issued for it, on the toolbar path and on the
\* overlay path.
C15_CancelSkipsDownload ==
  PromptAbandoned =>
    /\ click.pc = "done"
    /\ click.payload = Null
    /\ net = {}
    /\ batch = NewBatch
    /\ downloadMeta = <<>>
    /\ lastEvent.kind = "none"

\* the dialog of a toolbar click on two assets was cancelled
C15_Witness ==
  /\ click.path = "toolbar"
  /\ Len(click.images) = 2
  /\ click.prompt = "cancelled"
  /\ net = {}

\* the illust record of the data declares more pages than the page list of
\* the data has, it has an original url to guess from, and there is no
\* animation archive
DeclaresMorePages(illustId, data) ==
  /\ illustId \in DOMAIN data.illust
  /\ Truthy(data.illust[illustId].urls.original)
  /\ illustId \notin DOMAIN data.ugoira
  /\ data.illust[illustId].pageCount >
       (IF illustId \in DOMAIN data.illustManga
        THEN Len(data.illustManga[illustId].pages) ELSE 0)

\* the result has one asset per page index 0..pageCount - 1, in order, and
\* the assets past the first one and past the page list are guessed ones
OneAssetPerPage(result, pageCount, listed) ==
  /\ result.success
  /\ Len(result.images) = pageCount
  /\ \A k \in 1..Len(result.images) :
       /\ result.images[k].page = k - 1
       /\ (k > 1 /\ k > listed) => result.images[k].variant = "guessed"

\* C21: when the declared page count is larger than the number of entries of
\* the page list, an empty list or a shorter one, the missing pages are
\* filled with guessed assets and the result has one asset per page index
\* 0..pageCount - 1.
C21_MissingPagesGuessed ==
  (fnCall.fn = "collectIllustImages" /\ fnResult # Null
     /\ DeclaresMorePages(fnCall.illustId, DataOf(fnCall))) =>
    LET data == DataOf(fnCall)
        id == fnCall.illustId
    IN  OneAssetPerPage(fnResult[1], data.illust[id].pageCount,
                        IF id \in DOMAIN data.illustManga
                        THEN Len(data.illustManga[id].pages) ELSE 0)

(***************************************************************************)
(* Properties of the path sanitizer.                                       *)
(***************************************************************************)
\* C24: for every segment and every fallback that is not empty,
\* sanitizeSegment returns a segment that is not empty, holds none of
\* < > : " / \ | ? * and no control character, does not end with a dot or a
\* space, and is not, in any case of letters, a reserved device name.
C24_SegmentIsSafe ==
  (fnCall.fn = "sanitizeSegment" /\ fnResult # Null) =>
    LET segment == fnResult[1] IN
    /\ segment # <<>>
    /\ \A k \in 1..Len(segment) : segment[k] \notin IllegalChars
    /\ segment[Len(segment)] \notin { ".", " " }
    /\ ToLowerCase(segment) \notin WINDOWS_RESERVED_NAMES

\* C22: whatever the asset, the title, the author, the id, the root folder
\* and the extension, buildDownloadPathCandidates returns a list that is not
\* empty, has no path twice, and holds no path of more than 240 characters,
\* the last-resort path of id and timestamp included.
C22_PathsWithinCeiling ==
  (fnCall.fn = "buildDownloadPathCandidates" /\ fnResult # Null) =>
    \A a \in 1..2 :
      LET paths == fnResult[1][a] IN
      /\ paths # <<>>
      /\ \A i, j \in 1..Len(paths) : paths[i] = paths[j] => i = j
      /\ \A i \in 1..Len(paths) : Len(paths[i]) <= PathLimit

\* C23: the path candidates of two assets of one artwork whose page indices
\* differ have no path in common, also when the file names are cut to 120
\* characters.
C23_PagesNeverCollide ==
  (fnCall.fn = "buildDownloadPathCandidates" /\ fnResult # Null) =>
    \A i \in 1..Len(fnResult[1][1]), j \in 1..Len(fnResult[1][2]) :
      fnResult[1][1][i] # fnResult[1][2][j]

(***************************************************************************)
(* Properties of the badge.                                                *)
(***************************************************************************)

\* the success mark of the badge (README.md, Usage, step 4): U+2714
SuccessMark == << "U+2714" >>

\* the assets of the batch with no saved file
FailedAssets == { a \in 1..Len(Images) : obs.saved[a] = 0 }

\* the summary of a batch of n assets of which e failed
Summary(n, e) ==
  IF e = 0 THEN SuccessMark
  ELSE IF e >= n THEN << "E", "R", "R" >>
  ELSE DigitsOf(n - e)

\* the progress texts were set for the assets 1..Len(batch.badges), in order
ProgressInOrder ==
  /\ Len(batch.badges) <= Len(Images)
  /\ \A k \in 1..Len(batch.badges) :
       batch.badges[k] = DigitsOf(k) \o << "/" >> \o DigitsOf(Len(Images))

\* C25: after a batch of N >= 1 assets of which E failed the final badge is
\* the success mark when E = 0, ERR when E >= N and the number N - E
\* otherwise; the progress texts i/N are set in the order i = 1..N, and the
\* final badge is set only after the last asset has finished.
C25_BadgeSummary ==
  /\ ProgressInOrder
  /\ batch.pc \notin { "idle", "done" } =>
       /\ batch.badges # <<>>
       /\ badge = batch.badges[Len(batch.badges)]
  /\ (batch.pc = "done" /\ lastEvent.kind # "badgeTimer") =>
       /\ Len(batch.badges) = Len(Images)
       /\ badge = Summary(Len(Images), Cardinality(FailedAssets))

(***************************************************************************)
(* Properties of the committed files.                                      *)
(***************************************************************************)

\* C26: with the anti-theft setting enabled, every file that a batch commits
\* has the anti-theft tag in its file name, whichever path candidate the sink
\* accepts, also after it rejected earlier path candidates.
C26_CommittedFilesAreTagged ==
  (lastEvent.kind = "commit" /\ lastEvent.outcome = "saved" /\ currentSettings.antiTheft) =>
    Includes(lastEvent.op.filename, antiTheftTagText)

(***************************************************************************)
(* Termination of a batch.                                                 *)
(***************************************************************************)

\* the fetches made for the asset of the current candidate are at most the
\* distinct candidates of its chain times the attempts allowed
FetchesWithinBound ==
  obs.cur.asset # -1 =>
    obs.cur.assetFetches <=
      Len(ChainOf(Images[obs.cur.asset + 1])) * ClaimedMaxAttempts(obs.cur.retry)

\* C27: when every fetch and every download call is answered, a started batch
\* runs to completion: triggerDownloads returns, after at most (distinct
\* candidates x maxAttempts) fetches for each asset.
C27_BatchTerminates == []FetchesWithinBound /\ <>(batch.pc = "done")

\* a batch returned after an asset used every fetch of its chain
C27_Witness ==
  /\ batch.pc = "done"
  /\ Len(ChainOf(Images[obs.cur.asset + 1])) > 1
  /\ obs.cur.assetFetches = Len(ChainOf(Images[obs.cur.asset + 1])) * 4

(***************************************************************************)
(* Properties of the derived fallbacks.                                    *)
(***************************************************************************)

\* a primary under /img-original/ whose name ends in _p<k>.<ext>
MatchesOriginal(url) ==
  url.dir = "img-original" /\ url.page >= 0 /\ url.suffix = "" /\ url.ext # ""

\* the derived fallbacks of a primary as the contract gives them
DerivedOf(primary) ==
  IF ~MatchesOriginal(primary) THEN <<>>
  ELSE << Url("img-master", primary.stem, primary.page, "_master1200", "jpg") >> \o
       (IF primary.ext \in { "jpg", "JPG" } THEN <<>>
        ELSE << Url("img-master", primary.stem, primary.page, "_master1200", primary.ext) >>)

\* C28: for a primary under /img-original/ ending in _p<k>.<ext> the derived
\* fallbacks are the /img-master/ url of the page ending in _master1200.jpg
\* and, exactly when <ext> is not .jpg in any case of letters, the one ending
\* in _master1200.<ext>, in that order; for another primary none is derived,
\* and the extras are returned all the same.
C28_DerivedFallbacks ==
  (fnCall.fn = "buildFallbackList" /\ fnResult # Null) =>
    LET result == fnResult[1]
        NotInExtras(u) == ~Contains(fnCall.extras, u)
    IN  /\ SelectSeq(result, NotInExtras) = SelectSeq(DerivedOf(fnCall.primary), NotInExtras)
        /\ \A k \in 1..Len(fnCall.extras) :
             (Truthy(fnCall.extras[k]) /\ fnCall.extras[k] # fnCall.primary) =>
               Contains(result, fnCall.extras[k])

\* a primary ending in _p0.JPG with no extras got the one master url
C28_Witness ==
  /\ fnResult # Null
  /\ fnCall.fn = "buildFallbackList"
  /\ fnCall.primary = Original(1, 0, "JPG")
  /\ fnCall.extras = <<>>
  /\ fnResult[1] = << Master(1, 0) >>

(***************************************************************************)
(* Properties of the remembered range.                                     *)
(***************************************************************************)

\* C29: after a batch was started with the range selection s..e, where
\* 1 <= s <= e <= 9999, the settings of the background script hold
\* customRangeStart = s and customRangeEnd = e, and a later download in
\* "custom" mode on a list of the same length takes the same positions.
C29_RangeIsRemembered ==
  (fnCall.fn = "triggerDownloads" /\ fnResult # Null) =>
    /\ fnResult[1].settings.customRangeStart = fnCall.start
    /\ fnResult[1].settings.customRangeEnd = fnCall.end
    /\ fnResult[1].later = fnResult[1].started

\* the range 2..3 of three images replaced the stored range 1..1, and the
\* later download takes the images 2 and 3
C29_Witness ==
  /\ fnResult # Null
  /\ fnCall.fn = "triggerDownloads"
  /\ fnCall.total = 3
  /\ fnCall.start = 2
  /\ fnCall.end = 3
  /\ fnCall.settings.customRangeStart = 1
  /\ fnCall.settings.range = "all"
  /\ fnResult[1].later = << PlainImage(1), PlainImage(2) >>

(***************************************************************************)
(* Properties of what reaches the sink.                                    *)
(***************************************************************************)

\* a content type that matches image/* or application/zip
IsImageOrZip(contentType) == contentType \in { "image/png", "IMAGE/JPEG", "application/zip" }

\* the answer has a success status and the content type of an image or a zip
GoodAnswer(response) == ~response.threw /\ response.ok /\ IsImageOrZip(response.contentType)

\* C30: a download call is made only for an attempt whose fetch gave a
\* success status and a content type matching image/* or application/zip; a
\* fetch with another status or content type is a failed attempt, and no
\* bytes of it reach the sink.
C30_CommitOnlyAfterGoodFetch ==
  /\ \A op \in net :
       op.op = "commit" =>
         /\ IsImageOrZip(op.dataUrl[1].contentType)
         /\ \E n \in 0..4 : op.dataUrl[1].bytes = << op.asset, op.url, n >>
  /\ lastEvent.kind = "fetch" =>
       IF GoodAnswer(lastEvent.response)
       THEN net = { [op |-> "commit", asset |-> lastEvent.op.asset, url |-> lastEvent.op.url,
                     filename |-> batch.pathCandidates[1],
                     dataUrl |-> Some([contentType |-> lastEvent.response.contentType,
                                       bytes |-> lastEvent.response.bytes])] }
       ELSE /\ lastEvent.outcome = "failed"
            /\ obs.cur.failed >= 1 \/ obs.cur.url # lastEvent.op.url
                                   \/ obs.cur.asset # lastEvent.op.asset
            /\ \A op \in net : op.op # "commit"

\* a download call is outstanding for the bytes of the second answer to a
\* candidate whose first answer had the content type of a page
C30_Witness ==
  /\ lastEvent.kind = "fetch"
  /\ GoodAnswer(lastEvent.response)
  /\ obs.cur.failed = 1
  /\ batch.lastError = Some(unexpectedContentType("text/html"))
  /\ \E op \in net : op.op = "commit" /\ op.dataUrl[1].bytes = lastEvent.response.bytes

\* C39: the two range filters agree: for every asset list, the empty one
\* included, and every selection with integer start and end (0, negative,
\* above the length), applySelection of the content script and
\* applyRangeSelection of the background script return the same sub-list.
C39_FiltersAgree ==
  (fnCall.fn = "applySelection" /\ fnResult # Null) =>
    fnResult[1].content = fnResult[1].background

\* both filters have returned one asset for a range whose end lies below its
\* start, which lies above the length of the list
C39_Witness ==
  /\ fnCall.fn = "applySelection"
  /\ fnResult # Null
  /\ fnCall.selection[1].mode = "range"
  /\ fnCall.selection[1].start = Some(MaxRangeLen + 2)
  /\ fnCall.selection[1].end = Some(0 - 1)
  /\ Len(fnCall.images) = MaxRangeLen
  /\ fnResult[1].content = << fnCall.images[MaxRangeLen] >>

\* ---------------------------------------------------------------------------
\* Properties of the resolver: the cache and the in-flight record
\* ---------------------------------------------------------------------------

\* the calls of collectPixivMedia that have returned
Returns == { c \in 1..Len(calls) : calls[c].pc = "done" /\ calls[c].result # Null }

\* C31: the single-slot cache is consistent: whenever cachedPayload is set,
\* its illustId is cachedIllustId, and a call of collectPixivMedia for an id
\* never returns a successful payload of another id, also when a resolution of
\* an older id settles after a navigation cleared or overwrote the cache.
C31_CacheIsConsistent ==
  /\ cachedPayload # Null =>
       /\ cachedPayload[1].success
       /\ cachedPayload[1].illustId = cachedIllustId
  /\ \A c \in Returns :
       calls[c].result[1].success => calls[c].result[1].illustId = calls[c].illustId

\* a resolution of an older id was cached after the path watcher had cleared
\* the cache for a navigation to another page
C31_Witness ==
  /\ cachedPayload # Null
  /\ cachedIllustId # 0
  /\ cachedIllustId # location
  /\ lastPathname = location
  /\ navigations >= 1
  /\ \E c \in Returns : /\ calls[c].via \in {"start", "join"}
                         /\ calls[c].illustId = cachedIllustId
                         /\ calls[c].result = cachedPayload

\* C32: the calls that joined an in-flight resolution return what the call
\* that started it returns: the same successful payload, or a failure with
\* the same error message.
C32_JoinersShareTheOutcome ==
  \A c \in Returns : \A d \in Returns :
    (calls[c].promise = calls[d].promise /\ calls[c].promise # 0
       /\ calls[c].via = "start" /\ calls[d].via = "join")
      => calls[d].result = calls[c].result

\* a rejected resolution has answered the call that started it and a call
\* that joined it
C32_Witness ==
  \E c \in Returns : \E d \in Returns :
    /\ calls[c].promise = calls[d].promise
    /\ calls[c].via = "start"
    /\ calls[d].via = "join"
    /\ ~calls[c].result[1].success
    /\ calls[c].result[1].error # ""

\* C33: the in-flight record never dangles: when no resolution is unfinished
\* inflightPromise and inflightIllustId are both null, and whenever
\* inflightPromise is set, inflightIllustId is the id that promise resolves.
C33_InflightNeverDangles ==
  /\ (\A id \in Ids : Unfinished(id) = {}) => (inflightPromise = 0 /\ inflightIllustId = 0)
  /\ inflightPromise = 0 <=> inflightIllustId = 0
  /\ inflightPromise # 0 => promises[inflightPromise].illustId = inflightIllustId

\* three resolutions over two ids have all finished, the record having been
\* overwritten by the second and by the third
C33_Witness ==
  /\ Len(promises) = 3
  /\ \E id \in Ids : promises[1].illustId = id /\ promises[2].illustId # id
                       /\ promises[3].illustId = id
  /\ \A id \in Ids : Unfinished(id) = {}
  /\ \A c \in 1..Len(calls) : calls[c].pc = "done"
  /\ inflightPromise = 0

(***************************************************************************)
(* Background script: the handlers of the events it listens to.  A click   *)
(* on the toolbar button (handleAction) and each message (the listener of  *)
(* runtime.onMessage) starts a handler; a handler runs up to its next      *)
(* await in one step, and the handlers interleave at their awaits.  The    *)
(* candidates of an asset (see the downloader above) are folded into the   *)
(* tries of its fetch.                                                     *)
(***************************************************************************)
MaxEvents == 2
MaxBatch == 2
MaxTries == 2

\* a settings object as the raw record storage.get gives for it
RawOf(settings) == MergeSettings(settings, <<>>)

\* What storage.get can find at startup: nothing, values that an options
\* page saved, or values that are no valid settings.
StoredValues ==
  { Null,
    Some(RawOf([DEFAULT_SETTINGS EXCEPT !.language = "ja", !.range = "custom",
                                        !.customRangeStart = 2, !.customRangeEnd = 3])),
    Some([language |-> "fr", range |-> "some", customRangeStart |-> Some(7),
          customRangeEnd |-> Some(2), antiTheft |-> Null, overlay |-> Some(FALSE),
          rootFolder |-> <<>>, retryFailed |-> Null]) }

\* The payloads of PIXIV_SETTINGS_UPDATED: an end below the start, numbers
\* outside 1..9999, a value that is no number, a language and a range that
\* do not exist, flags that are no booleans, and valid values.
UpdatePayloads ==
  { [customRangeStart |-> Some(5), customRangeEnd |-> Some(2)],
    [customRangeStart |-> Some(RangeMax + 1), antiTheft |-> Null],
    [customRangeEnd |-> Some(0 - 3), language |-> "fr"],
    [customRangeStart |-> Null, range |-> "some"],
    [range |-> "prompt", retryFailed |-> Some(FALSE)] }

BgEvent(type, tabId, pixiv, images, selection, payload) ==
  [type |-> type, tabId |-> tabId, pixiv |-> pixiv, images |-> images,
   selection |-> selection, payload |-> payload]

\* The events: a click on the toolbar button in a tab that shows a Pixiv page
\* or another page; the messages of the content script and the options page.
\* images is the length of payload.images, Null for a payload without a list.
BgEvents ==
  { BgEvent("onClicked", 1, pixiv, Null, SelectAll, <<>>) : pixiv \in BOOLEAN }
  \cup { BgEvent("PIXIV_SETTINGS_REQUEST", 1, TRUE, Null, SelectAll, <<>>) }
  \cup { BgEvent("PIXIV_SETTINGS_UPDATED", 1, TRUE, Null, SelectAll, payload) :
           payload \in UpdatePayloads }
  \cup { BgEvent("PIXIV_DOWNLOAD_SELECTION", 0, TRUE, Some(1), SelectAll, <<>>),
         BgEvent("PIXIV_DOWNLOAD_SELECTION", 1, TRUE, Null, SelectAll, <<>>),
         BgEvent("PIXIV_DOWNLOAD_SELECTION", 1, TRUE, Some(0), SelectAll, <<>>) }
  \cup { BgEvent("PIXIV_DOWNLOAD_SELECTION", 1, TRUE, Some(n), selection, <<>>) :
           n \in 1..MaxBatch, selection \in { SelectAll, SelectRange(2, 3) } }

BadgeDots == << ".", ".", "." >>
BadgeERR == << "E", "R", "R" >>
BadgeNA == << "N", "/", "A" >>
BadgeZero == << "0" >>

\* a response handed to sendResponse; current: history, the value of
\* currentSettings when the response was sent
BgResponse(success, settings, count, errors, error) ==
  [success |-> success, settings |-> settings, count |-> count, errors |-> errors,
   error |-> error, current |-> currentSettings]

\* the local variables of a handler
NewHandler(event) ==
  [event |-> event, pc |-> "start",
   sends |-> 0,             \* PIXIV_COLLECT_IMAGES requests sent to the tab
   injected |-> 0,          \* calls of executeContentScript
   collectErrors |-> <<>>,  \* history: the errors of the requests, in order
   total |-> 0,             \* meta.images.length
   selection |-> SelectAll,
   asset |-> 0,             \* the asset the loop of triggerDownloads is at
   tries |-> 0,             \* fetches made for that asset
   errors |-> 0,            \* errors.length
   fetches |-> 0,           \* history: fetches issued
   responses |-> <<>>,      \* history: the calls of sendResponse
   current |-> Null,        \* history: currentSettings after its updateSettings
   badge |-> <<>>]          \* the text it set last

\* The listener for PIXIV_DOWNLOAD_SELECTION, lines 979-989: the key of the
\* error it responds with at once, "" when it accepts the message.
SelectionRejected(event) ==
  IF event.tabId = 0 THEN "errorActiveTabMissing"
  ELSE IF event.images = Null \/ event.images = Some(0) THEN "errorNoImagesForDownload"
  ELSE ""

\* handleAction up to its first await (lines 900-916) and the listener of
\* runtime.onMessage up to the first await of its async function.
Started(event) ==
  LET h == NewHandler(event)
  IN  CASE event.type = "onClicked" ->
             IF event.pixiv
             THEN [h EXCEPT !.pc = "collect", !.sends = 1, !.badge = BadgeDots]
             ELSE [h EXCEPT !.pc = "done", !.badge = BadgeNA]
        [] event.type = "PIXIV_DOWNLOAD_SELECTION" ->
             IF SelectionRejected(event) # ""
             THEN [h EXCEPT !.pc = "done",
                            !.responses = << BgResponse(FALSE, Null, 0, 0,
                                                        SelectionRejected(event)) >>]
             ELSE [h EXCEPT !.pc = "settings", !.badge = BadgeDots,
                            !.total = event.images[1], !.selection = event.selection]
        [] OTHER -> [h EXCEPT !.pc = "settings"]

\* Mutant of IsConnectionError: every error is taken for a missing receiver.
IsConnectionErrorAny(error) == TRUE

\* requestImagesFromTab, line 660: the two messages of a tab without the
\* content script
IsConnectionError(error) ==
  error \in { "Could not establish connection", "Receiving end does not exist" }

\* What the tab can answer to PIXIV_COLLECT_IMAGES: a payload with images, a
\* payload without, no payload, or an error of the messaging.
CollectAnswers ==
  { [error |-> "", payload |-> Some(n)] : n \in 0..MaxBatch }
  \cup { [error |-> "", payload |-> Null] }
  \cup { [error |-> e, payload |-> Null] :
           e \in { "Could not establish connection", "Receiving end does not exist",
                   "The message port closed" } }

\* Mutant of BatchFinished: the loop ends after its first asset.
BatchFinishedAfterFirst(h) == TRUE

\* line 800: the loop of triggerDownloads has taken its last asset
BatchFinished(h) == h.asset >= h.total

\* The loop of triggerDownloads is done with an asset, failed or not: it
\* issues the fetch of the next asset, or triggerDownloads returns and the
\* handler calls finalizeBadge (lines 962, 1007) and, for a message,
\* sendResponse (line 1008).
AssetDone(h, failed) ==
  LET errors == h.errors + (IF failed THEN 1 ELSE 0)
  IN  IF ~BatchFinished(h)
      THEN [h EXCEPT !.errors = errors, !.asset = @ + 1, !.tries = 1, !.fetches = @ + 1,
                     !.pc = "fetch", !.badge = BadgeProgress(h.asset, h.total)]
      ELSE [h EXCEPT !.errors = errors, !.pc = "done",
                     !.badge = finalizeBadge(h.total, errors),
                     !.responses =
                       IF h.event.type = "PIXIV_DOWNLOAD_SELECTION"
                       THEN Append(@, BgResponse(TRUE, Null, h.total, errors, ""))
                       ELSE @]

BackgroundInit ==
  /\ ResolverOff
  /\ FunctionsOff
  /\ ClickOff
  /\ currentSettings = DEFAULT_SETTINGS
  /\ downloadMeta = <<>>
  /\ batch = <<>>
  /\ net = {}
  /\ badge = <<>>
  /\ updates = 0
  /\ obs = <<>>
  /\ lastEvent = <<>>
  /\ settingsReadyPromise = [state |-> "pending", value |-> Null]
  /\ storage \in StoredValues
  /\ handlers = <<>>

BgUnchanged ==
  UNCHANGED << downloadMeta, batch, net, badge, updates, obs, lastEvent, rvars, fvars, cvars >>

\* ensureSettingsLoaded, lines 281-282: storage.get has answered
StorageAnswers ==
  /\ settingsReadyPromise.state = "pending"
  /\ LET settings == IF storage = Null THEN DEFAULT_SETTINGS
                     ELSE sanitizeSettings(storage[1])
     IN  /\ currentSettings' = settings
         /\ settingsReadyPromise' =
              IF settings.language # DEFAULT_SETTINGS.language
              THEN [state |-> "locale", value |-> Null]
              ELSE [state |-> "fulfilled", value |-> Some(settings)]
  /\ UNCHANGED << storage, handlers >>
  /\ BgUnchanged

\* ensureSettingsLoaded, lines 283-286: loadLocaleBundle has returned
LocaleLoaded ==
  /\ settingsReadyPromise.state = "locale"
  /\ settingsReadyPromise' = [state |-> "fulfilled", value |-> Some(currentSettings)]
  /\ UNCHANGED << currentSettings, storage, handlers >>
  /\ BgUnchanged

\* an event arrives and its handler runs up to its first await
Receive ==
  /\ Len(handlers) < MaxEvents
  /\ \E event \in BgEvents : handlers' = Append(handlers, Started(event))
  /\ UNCHANGED << currentSettings, settingsReadyPromise, storage >>
  /\ BgUnchanged

\* requestImagesFromTab, lines 656-666, and handleAction, lines 917-931: the
\* tab has answered PIXIV_COLLECT_IMAGES
CollectRespond ==
  /\ \E h \in 1..Len(handlers) : \E answer \in CollectAnswers :
       /\ handlers[h].pc = "collect"
       /\ handlers' = [handlers EXCEPT ![h] =
            IF answer.error # ""
            THEN IF @.sends = 1 /\ IsConnectionError(answer.error)
                 THEN [@ EXCEPT !.pc = "inject", !.injected = @ + 1,
                                !.collectErrors = Append(@, answer.error)]
                 ELSE [@ EXCEPT !.pc = "done", !.badge = BadgeERR,
                                !.collectErrors = Append(@, answer.error)]
            ELSE IF answer.payload = Null \/ answer.payload = Some(0)
                 THEN [@ EXCEPT !.pc = "done", !.badge = BadgeZero]
                 ELSE [@ EXCEPT !.pc = "settings", !.total = answer.payload[1]]]
  /\ UNCHANGED << currentSettings, settingsReadyPromise, storage >>
  /\ BgUnchanged

\* requestImagesFromTab, lines 661-662: executeContentScript has returned and
\* the request is sent again, or it has thrown
InjectRespond ==
  /\ \E h \in 1..Len(handlers) : \E ok \in BOOLEAN :
       /\ handlers[h].pc = "inject"
       /\ handlers' = [handlers EXCEPT ![h] =
            IF ok THEN [@ EXCEPT !.pc = "collect", !.sends = @ + 1]
            ELSE [@ EXCEPT !.pc = "done", !.badge = BadgeERR,
                           !.collectErrors = Append(@, "executeScript failed")]]
  /\ UNCHANGED << currentSettings, settingsReadyPromise, storage >>
  /\ BgUnchanged

\* the listener for PIXIV_SETTINGS_REQUEST, lines 1033-1043, after its await
SettingsRequestResume ==
  /\ settingsReadyPromise.state = "fulfilled"
  /\ \E h \in 1..Len(handlers) :
       /\ handlers[h].pc = "settings"
       /\ handlers[h].event.type = "PIXIV_SETTINGS_REQUEST"
       /\ handlers' = [handlers EXCEPT ![h] =
            [@ EXCEPT !.pc = "done",
                      !.responses = Append(@, BgResponse(TRUE, settingsReadyPromise.value,
                                                         0, 0, ""))]]
  /\ UNCHANGED << currentSettings, settingsReadyPromise, storage >>
  /\ BgUnchanged

\* the listener for PIXIV_SETTINGS_UPDATED, lines 1021-1024, and
\* updateSettings up to its first await
SettingsUpdatedResume ==
  /\ settingsReadyPromise.state = "fulfilled"
  /\ \E h \in 1..Len(handlers) :
       /\ handlers[h].pc = "settings"
       /\ handlers[h].event.type = "PIXIV_SETTINGS_UPDATED"
       /\ currentSettings' = updateSettings(currentSettings, handlers[h].event.payload)
       /\ handlers' = [handlers EXCEPT ![h] =
            [@ EXCEPT !.pc = "persist", !.current = Some(currentSettings')]]
  /\ UNCHANGED << settingsReadyPromise, storage >>
  /\ BgUnchanged

\* updateSettings, lines 337-354, and line 1025: the values are stored and
\* pushed to the tabs, and the listener responds with them
SettingsPersisted ==
  /\ \E h \in 1..Len(handlers) :
       /\ handlers[h].pc = "persist"
       /\ storage' = Some(RawOf(handlers[h].current[1]))
       /\ handlers' = [handlers EXCEPT ![h] =
            [@ EXCEPT !.pc = "done",
                      !.responses = Append(@, BgResponse(TRUE, handlers[h].current, 0, 0, ""))]]
  /\ UNCHANGED << currentSettings, settingsReadyPromise >>
  /\ BgUnchanged

\* handleAction, lines 941-953: resolveSelectionForToolbar has returned the
\* whole list, a range of it, or that the dialog was cancelled
SelectionResolved ==
  /\ settingsReadyPromise.state = "fulfilled"
  /\ \E h \in 1..Len(handlers) :
       /\ handlers[h].pc = "settings"
       /\ handlers[h].event.type = "onClicked"
       /\ \/ handlers' = [handlers EXCEPT ![h] = [@ EXCEPT !.pc = "done", !.badge = <<>>]]
          \/ \E n \in 1..handlers[h].total :
               handlers' = [handlers EXCEPT ![h] =
                 [@ EXCEPT !.pc = "select", !.total = n,
                           !.selection = IF n = handlers[h].total THEN SelectAll
                                         ELSE SelectRange(1, n)]]
  /\ UNCHANGED << currentSettings, settingsReadyPromise, storage >>
  /\ BgUnchanged

\* triggerDownloads, lines 785-818, called at line 961 or at line 1006: the
\* range of the selection is put into the settings and the first fetch is
\* issued
TriggerDownloadsStart ==
  /\ settingsReadyPromise.state = "fulfilled"
  /\ \E h \in 1..Len(handlers) :
       /\ \/ handlers[h].pc = "select"
          \/ handlers[h].pc = "settings" /\ handlers[h].event.type = "PIXIV_DOWNLOAD_SELECTION"
       /\ currentSettings' =
            IF handlers[h].selection.mode = "range"
            THEN updateSettings(currentSettings,
                                [customRangeStart |-> handlers[h].selection.start,
                                 customRangeEnd |-> handlers[h].selection.end])
            ELSE currentSettings
       /\ storage' = IF handlers[h].selection.mode = "range"
                     THEN Some(RawOf(currentSettings')) ELSE storage
       /\ handlers' = [handlers EXCEPT ![h] =
            [@ EXCEPT !.pc = "fetch", !.asset = 1, !.tries = 1, !.fetches = 1,
                      !.badge = BadgeProgress(0, handlers[h].total),
                      !.current = IF handlers[h].selection.mode = "range"
                                  THEN Some(currentSettings') ELSE Null]]
  /\ UNCHANGED settingsReadyPromise
  /\ BgUnchanged

\* triggerDownloads, lines 818-859: the fetch of an asset is answered; a
\* failed fetch is tried again after a delay, or the asset is given up
HandlerFetchRespond ==
  /\ \E h \in 1..Len(handlers) :
       /\ handlers[h].pc = "fetch"
       /\ \/ handlers' = [handlers EXCEPT ![h].pc = "download"]
          \/ /\ handlers[h].tries < MaxTries
             /\ handlers' = [handlers EXCEPT ![h].pc = "delay"]
          \/ handlers' = [handlers EXCEPT ![h] = AssetDone(@, TRUE)]
  /\ UNCHANGED << currentSettings, settingsReadyPromise, storage >>
  /\ BgUnchanged

\* triggerDownloads: the delay before the next try is over
HandlerTimerFires ==
  /\ \E h \in 1..Len(handlers) :
       /\ handlers[h].pc = "delay"
       /\ handlers' = [handlers EXCEPT ![h] =
            [@ EXCEPT !.pc = "fetch", !.tries = @ + 1, !.fetches = @ + 1]]
  /\ UNCHANGED << currentSettings, settingsReadyPromise, storage >>
  /\ BgUnchanged

\* triggerDownloads, lines 827-852: downloads.download is answered
HandlerCommitRespond ==
  /\ \E h \in 1..Len(handlers) : \E saved \in BOOLEAN :
       /\ handlers[h].pc = "download"
       /\ handlers' = [handlers EXCEPT ![h] = AssetDone(@, ~saved)]
  /\ UNCHANGED << currentSettings, settingsReadyPromise, storage >>
  /\ BgUnchanged

BackgroundNext ==
  \/ StorageAnswers
  \/ LocaleLoaded
  \/ Receive
  \/ CollectRespond
  \/ InjectRespond
  \/ SettingsRequestResume
  \/ SettingsUpdatedResume
  \/ SettingsPersisted
  \/ SelectionResolved
  \/ TriggerDownloadsStart
  \/ HandlerFetchRespond
  \/ HandlerTimerFires
  \/ HandlerCommitRespond

BackgroundSpec == BackgroundInit /\ [][BackgroundNext]_<< rvars, dvars, fvars, cvars, bvars >>

(***************************************************************************)
(* Properties of the handlers of the background script.                    *)
(***************************************************************************)
HandlersOf(type) == { h \in 1..Len(handlers) : handlers[h].event.type = type }

\* C34: a PIXIV_SETTINGS_REQUEST is answered with the current settings of
\* the background script: after a PIXIV_SETTINGS_UPDATED or a range update of
\* a download was applied, the response holds the updated values, not the
\* values loaded at startup.
C34_RequestAnsweredWithCurrent ==
  \A h \in HandlersOf("PIXIV_SETTINGS_REQUEST") :
    \A r \in 1..Len(handlers[h].responses) :
      /\ handlers[h].responses[r].success
      /\ handlers[h].responses[r].settings = Some(handlers[h].responses[r].current)

ValidSettings(settings) ==
  /\ settings.range \in { "all", "prompt", "custom" }
  /\ settings.language \in { "en", "ja", "zh_CN" }
  /\ 1 <= settings.customRangeStart
  /\ settings.customRangeStart <= settings.customRangeEnd
  /\ settings.customRangeEnd <= RangeMax
  /\ settings.antiTheft \in BOOLEAN
  /\ settings.overlay \in BOOLEAN
  /\ settings.retryFailed \in BOOLEAN

\* C35: after the initial load and after any sequence of updateSettings
\* calls with arbitrary payloads, currentSettings has a range of
\* all/prompt/custom, a language of en/ja/zh_CN, 1 <= customRangeStart <=
\* customRangeEnd <= 9999, and booleans for antiTheft, overlay, retryFailed.
C35_SettingsStayValid == ValidSettings(currentSettings)

\* stored values that are no valid settings were loaded, and an update with
\* an end below its start was applied after another update
C35_Witness ==
  /\ settingsReadyPromise.state = "fulfilled"
  /\ settingsReadyPromise.value[1].overlay = FALSE
  /\ Len(handlers) = 2
  /\ handlers[1].event.type = "PIXIV_SETTINGS_UPDATED"
  /\ handlers[1].pc = "done"
  /\ handlers[2].event.payload = [customRangeStart |-> Some(5), customRangeEnd |-> Some(2)]
  /\ handlers[2].current = Some(currentSettings)
  /\ currentSettings.customRangeStart = 5
  /\ currentSettings.customRangeEnd = 5

\* the handlers with a fetch of an asset outstanding
FetchOutstanding == { h \in 1..Len(handlers) : handlers[h].pc = "fetch" }

\* C36: at any moment at most one asset fetch issued by triggerDownloads is
\* outstanding in the background script, also when a second download
\* request arrives while a batch is running.
C36_OneFetchAtATime == Cardinality(FetchOutstanding) <= 1

\* C37: every PIXIV_DOWNLOAD_SELECTION message gets exactly one response: a
\* failure with no fetch at all when the sender has no tab id or the image
\* list is missing or empty; otherwise one response, sent only after every
\* asset of the batch was processed, with the count and the errors.
C37_OneResponsePerSelection ==
  \A h \in HandlersOf("PIXIV_DOWNLOAD_SELECTION") :
    LET x == handlers[h]
        refused == x.event.tabId = 0 \/ x.event.images \in { Null, Some(0) }
    IN  /\ Len(x.responses) <= 1
        /\ x.pc = "done" <=> Len(x.responses) = 1
        /\ refused => /\ x.pc = "done"
                      /\ ~x.responses[1].success
                      /\ x.fetches = 0
        /\ (~refused /\ x.responses # <<>>) =>
             /\ x.responses[1].success
             /\ x.asset = x.event.images[1]
             /\ x.responses[1].count = x.event.images[1]
             /\ x.responses[1].errors = x.errors

\* a message with two images has got its response after both were
\* processed, one of them with an error
C37_Witness ==
  \E h \in HandlersOf("PIXIV_DOWNLOAD_SELECTION") :
    /\ handlers[h].event.images = Some(2)
    /\ handlers[h].asset = 2
    /\ Len(handlers[h].responses) = 1
    /\ handlers[h].responses[1].count = 2
    /\ handlers[h].responses[1].errors = 1

ConnectionErrors == { "Could not establish connection", "Receiving end does not exist" }

\* C38: on a toolbar click the collect request is sent at most twice: the
\* content script is injected and the request sent again once, and only after
\* a "could not establish connection" / "receiving end does not exist" error;
\* any other error, or a failure of the second send, ends the action with
\* the ERR badge and no download.
C38_CollectSentAtMostTwice ==
  \A h \in HandlersOf("onClicked") :
    LET x == handlers[h]
    IN  /\ x.sends <= 2
        /\ x.injected <= 1
        /\ x.sends = 2 => x.injected = 1
        /\ x.injected = 1 => x.collectErrors[1] \in ConnectionErrors
        /\ (x.collectErrors # <<>>
              /\ (x.collectErrors[1] \notin ConnectionErrors \/ Len(x.collectErrors) >= 2)) =>
             /\ x.pc = "done"
             /\ x.badge = BadgeERR
             /\ x.fetches = 0

\* the request was sent again after the injection and failed again
C38_Witness ==
  \E h \in HandlersOf("onClicked") :
    /\ handlers[h].sends = 2
    /\ handlers[h].injected = 1
    /\ Len(handlers[h].collectErrors) = 2
    /\ handlers[h].collectErrors[2] \in ConnectionErrors
    /\ handlers[h].badge = BadgeERR
====
